---- MODULE Spec2Model ----
(***************************************************************************)
(* Text-to-speech pipeline of go_tts_app: the concurrent dispatcher        *)
(* (work channel, worker pool, retry), the per-fragment audio validator    *)
(* and the ordered merge, modelled from src/service/tts_service.go and its *)
(* sibling services.                                                       *)
(***************************************************************************)
EXTENDS Integers, Sequences, FiniteSets, Bags, TLC

(***************************************************************************)
(* Bounds of the model and constants of the program                        *)
(***************************************************************************)
\* number of lines of the input file; line i has index i (0-based)
NumLines == 3
\* largest value of config.Concurrent.MaxWorkers explored
MaxWorkersCfg == 2
\* the literal passed as maxRetries by every worker
MaxRetries == 3
\* const minFileSize of validateAudioFile
minFileSize == 1024
\* time.Second, in nanoseconds
Second == 1000000000
\* largest value of config.Concurrent.RateLimit explored
MaxRate == 4
\* number of emission intervals the limiter is followed for
MaxTicks == 1

Lines == 0 .. (NumLines - 1)
\* the result path of a failed fragment: the empty string
NoPath == -1
\* sizes and leading bytes a file can have
FileSizes == {512, minFileSize}
Headers == {"ID3", "MPEG", "junk"}
\* leading bytes of the files the backend delivers in a run
BackendHeaders == {"ID3", "junk"}

VARIABLES
    input,        \* indices of the lines that pass the filter
    maxWorkers,   \* config.Concurrent.MaxWorkers
    mainPc,       \* position of ProcessInputFileConcurrent
    taskChan,     \* buffered work channel (closed once filled)
    resultChan,   \* buffered result channel
    resultClosed, \* close(resultChan) has happened
    workers,      \* the worker goroutines: a bag of their local states
    picked,       \* how often each task was received from taskChan
    calls,        \* how often generateAudioForText ran for each index
    fs,           \* temp dir: file at audio_{index}.mp3
    results,      \* results in the order the collector received them
    successCount, \* the collector's count of results without error
    failureCount, \* the collector's count of results with an error
    audioFiles,   \* argument of mergeAudioFiles
    output,       \* content of the output file (origin of each block)
    outExists,    \* the output file exists
    runErr,       \* error returned by the run ("pending" while running)
    rateLimit,    \* config.Concurrent.RateLimit
    tokens,       \* tokens in the limiter's bucket
    now,          \* time since the limiter was created, in nanoseconds
    granted,      \* number of limiter.Wait calls that have returned nil
    arg,          \* argument (and loop locals) of the function looked at
    ret           \* what that function has returned, that loop has reached

vars == <<input, maxWorkers, mainPc, taskChan, resultChan, resultClosed,
          workers, picked, calls, fs, results, successCount, failureCount,
          audioFiles, output, outExists, runErr,
          rateLimit, tokens, now, granted, arg, ret>>

limVars == <<rateLimit, tokens, now, granted>>

\* the variables of a run of the dispatcher and of a merge
runVars == <<input, maxWorkers, mainPc, taskChan, resultChan, resultClosed,
             workers, picked, calls, fs, results, successCount,
             failureCount, audioFiles, output, outExists, runErr>>

callVars == <<arg, ret>>

\* ret before the call has returned, and once it has returned v
NotReturned == <<>>

Returned(v) == <<v>>

(***************************************************************************)
(* Files and the validator                                                 *)
(***************************************************************************)
NoFile == [exists |-> FALSE, size |-> 0, hdr |-> "none", data |-> NoPath]

WrittenFile(sz, h, d) == [exists |-> TRUE, size |-> sz, hdr |-> h, data |-> d]

\* os.Stat / os.Open of a path: the empty path names no file
FileAt(fsys, p) == IF p \in DOMAIN fsys THEN fsys[p] ELSE NoFile

\* a validator that only looks for the file
validateAudioFileAlways(f) == f.exists

\* nil error of validateAudioFile: exists, size >= 1 KiB, MP3 header
validateAudioFile(f) ==
    /\ f.exists
    /\ f.size >= minFileSize
    /\ (f.hdr = "ID3" \/ f.hdr = "MPEG")

Range(s) == {s[k] : k \in 1 .. Len(s)}

Min(a, b) == IF a < b THEN a ELSE b

(***************************************************************************)
(* Task list, results, worker goroutines                                   *)
(***************************************************************************)
RECURSIVE Ascending(_)
\* the tasks in the order of the loop over lines
Ascending(S) ==
    IF S = {} THEN <<>>
    ELSE LET m == CHOOSE x \in S : \A y \in S : x <= y
         IN <<m>> \o Ascending(S \ {m})

TTSResult(i, p, e) == [Index |-> i, AudioFile |-> p, Error |-> e]

NoResult == TTSResult(NoPath, NoPath, FALSE)

\* local state of one ttsWorker goroutine: its position, the task of the
\* current loop iteration, the attempt counter and the result to send.
\* The goroutines differ only in the workerID they log.
Worker(pc, task, attempt, result) ==
    [pc |-> pc, task |-> task, attempt |-> attempt, result |-> result]

\* a worker between two iterations of its loop
IdleWorker(pc) == Worker(pc, NoPath, 0, NoResult)

\* n goroutines in the same local state
Goroutines(n, w) == IF n <= 0 THEN EmptyBag ELSE [x \in {w} |-> n]

workerCountUncapped(mw, n) == mw

\* the number of goroutines started: min(MaxWorkers, len(tasks))
workerCount(mw, n) == Min(mw, n)

noTasksIgnored(n) == FALSE

\* if len(tasks) == 0 { return fmt.Errorf(...) }
noTasks(n) == n = 0

sortResultsUnsorted(rs) == rs

\* sort.Slice(results, Index ascending)
sortResults(rs) == SortSeq(rs, LAMBDA a, b : a.Index < b.Index)

collectSuccessOnly(rs, r) == IF r.Error THEN rs ELSE Append(rs, r)

\* results = append(results, result)
collect(rs, r) == Append(rs, r)

retryLoopOneMore(attempt) == attempt <= MaxRetries

\* the loop of generateAudioWithRetry goes on after a failed attempt
retryLoop(attempt) == attempt < MaxRetries

afterSendStopOnError(r) == IF r.Error THEN "exit" ELSE "recv"

\* the worker's loop after a result was sent: next task
afterSend(r) == "recv"

\* what follows a failed attempt: backoff and retry, or the final error
afterFailure(w) ==
    IF retryLoop(w.attempt)
    THEN [w EXCEPT !.pc = "sleep"]
    ELSE [w EXCEPT !.pc = "send", !.result = TTSResult(w.task, NoPath, TRUE)]

(***************************************************************************)
(* The limiter built by NewTTSService                                      *)
(***************************************************************************)
\* rate.Every(time.Second / time.Duration(RateLimit)): the interval between
\* two tokens, an integer number of nanoseconds
EmissionInterval(r) == Second \div r

\* rate.NewLimiter(rateLimit, config.Concurrent.RateLimit): the bucket size
Burst(r) == r

(***************************************************************************)
(* Init                                                                    *)
(***************************************************************************)
Init ==
    /\ input \in SUBSET Lines
    /\ maxWorkers \in 0 .. MaxWorkersCfg
    /\ mainPc = "start"
    /\ taskChan = <<>>
    /\ resultChan = <<>>
    /\ resultClosed = FALSE
    /\ workers = EmptyBag
    /\ picked = [i \in Lines |-> 0]
    /\ calls = [i \in Lines |-> 0]
    /\ fs = [i \in Lines |-> NoFile]
    /\ results = <<>>
    /\ successCount = 0
    /\ failureCount = 0
    /\ audioFiles = <<>>
    /\ output = <<>>
    /\ outExists = FALSE
    /\ runErr = "pending"
    /\ rateLimit = 1
    /\ tokens = Burst(rateLimit)
    /\ now = 0
    /\ granted = 0
    /\ arg = "none"
    /\ ret = NotReturned

(***************************************************************************)
(* ProcessInputFileConcurrent / processTTSTasksConcurrent                  *)
(***************************************************************************)
\* no valid line: the run returns at once
ReturnEmptyInput ==
    /\ mainPc = "start"
    /\ noTasks(Cardinality(input))
    /\ mainPc' = "done"
    /\ runErr' = "EmptyInput"
    /\ UNCHANGED <<input, maxWorkers, taskChan, resultChan, resultClosed,
                   workers, picked, calls, fs, results,
                   successCount, failureCount, audioFiles, output,
                   outExists, limVars, callVars>>

\* fill and close taskChan, start min(MaxWorkers, len(tasks)) workers
StartWorkers ==
    /\ mainPc = "start"
    /\ ~noTasks(Cardinality(input))
    /\ taskChan' = Ascending(input)
    /\ workers' = Goroutines(workerCount(maxWorkers, Cardinality(input)),
                             IdleWorker("recv"))
    /\ mainPc' = "collect"
    /\ UNCHANGED <<input, maxWorkers, resultChan, resultClosed, picked,
                   calls, fs, results,
                   successCount, failureCount, audioFiles, output, outExists,
                   runErr, limVars, callVars>>

resultChanCapOne(n) == 1

\* resultChan := make(chan TTSResult, len(tasks))
resultChanCap(n) == n

wgWaitSkipped(ws) == TRUE

wgWaitForever(ws) == FALSE

\* wg.Wait(): every started goroutine has called wg.Done()
wgWait(ws) == \A w \in BagToSet(ws) : w.pc = "exit"

\* go func() { wg.Wait(); close(resultChan) }()
CloseResultChan ==
    /\ mainPc = "collect"
    /\ ~resultClosed
    /\ wgWait(workers)
    /\ resultClosed' = TRUE
    /\ UNCHANGED <<input, maxWorkers, mainPc, taskChan, resultChan, workers,
                   picked, calls, fs, results,
                   successCount, failureCount, audioFiles, output,
                   outExists, runErr, limVars, callVars>>

countFailureDropped(n, r) == n

\* if result.Error != nil { failureCount++ }
countFailure(n, r) == IF r.Error THEN n + 1 ELSE n

\* else { successCount++ }
countSuccess(n, r) == IF r.Error THEN n ELSE n + 1

\* for result := range resultChan: one result received and counted
CollectResult ==
    /\ mainPc = "collect"
    /\ resultChan # <<>>
    /\ results' = collect(results, Head(resultChan))
    /\ successCount' = countSuccess(successCount, Head(resultChan))
    /\ failureCount' = countFailure(failureCount, Head(resultChan))
    /\ resultChan' = Tail(resultChan)
    /\ UNCHANGED <<input, maxWorkers, mainPc, taskChan, resultClosed,
                   workers, picked, calls, fs, audioFiles, output,
                   outExists, runErr, limVars, callVars>>

\* the range loop ends; no result at all: the run returns an error
ReturnNoResults ==
    /\ mainPc = "collect"
    /\ resultChan = <<>>
    /\ resultClosed
    /\ results = <<>>
    /\ mainPc' = "done"
    /\ runErr' = "NoResults"
    /\ UNCHANGED <<input, maxWorkers, taskChan, resultChan, resultClosed,
                   workers, picked, calls, fs, results,
                   successCount, failureCount, audioFiles, output,
                   outExists, limVars, callVars>>

\* the range loop ends; sort by Index, collect the paths, call the merge
SortAndCallMerge ==
    /\ mainPc = "collect"
    /\ resultChan = <<>>
    /\ resultClosed
    /\ results # <<>>
    /\ audioFiles' = [k \in 1 .. Len(results) |->
                        sortResults(results)[k].AudioFile]
    /\ mainPc' = "merge"
    /\ UNCHANGED <<input, maxWorkers, taskChan, resultChan, resultClosed,
                   workers, picked, calls, fs, results,
                   successCount, failureCount, output, outExists,
                   runErr, limVars, callVars>>

(***************************************************************************)
(* ttsWorker / generateAudioWithRetry / generateAudioForText               *)
(***************************************************************************)
\* one goroutine moves from local state w to local state w2
Step(w, w2) ==
    workers' = (workers (-) SetToBag({w})) (+) SetToBag({w2})

\* for task := range taskChan: a task is received
ReceiveTask(w) ==
    /\ w.pc = "recv"
    /\ taskChan # <<>>
    /\ Step(w, [w EXCEPT !.pc = "wait", !.task = Head(taskChan)])
    /\ picked' = [picked EXCEPT ![Head(taskChan)] = @ + 1]
    /\ taskChan' = Tail(taskChan)
    /\ UNCHANGED <<input, maxWorkers, mainPc, resultChan, resultClosed,
                   calls, fs, results,
                   successCount, failureCount, audioFiles, output, outExists,
                   runErr, limVars, callVars>>

\* the closed channel is empty: the loop ends, wg.Done()
WorkerExit(w) ==
    /\ w.pc = "recv"
    /\ taskChan = <<>>
    /\ Step(w, [w EXCEPT !.pc = "exit"])
    /\ UNCHANGED <<input, maxWorkers, mainPc, taskChan, resultChan,
                   resultClosed, picked, calls, fs, results,
                   successCount, failureCount, audioFiles,
                   output, outExists, runErr, limVars, callVars>>

\* s.limiter.Wait(context.Background()) returns nil
LimiterWait(w) ==
    /\ w.pc = "wait"
    /\ Step(w, [w EXCEPT !.pc = "gen", !.attempt = 1])
    /\ granted' = granted + 1
    /\ UNCHANGED <<input, maxWorkers, mainPc, taskChan, resultChan,
                   resultClosed, picked, calls, fs, results,
                   successCount, failureCount, audioFiles,
                   output, outExists, runErr, rateLimit, tokens, now, callVars>>

\* an attempt that fails before the local file is created:
\* empty processed text, task creation, polling, HTTP status
GenerateFailsEarly(w) ==
    /\ w.pc = "gen"
    /\ calls' = [calls EXCEPT ![w.task] = @ + 1]
    /\ Step(w, afterFailure(w))
    /\ UNCHANGED <<input, maxWorkers, mainPc, taskChan, resultChan,
                   resultClosed, picked, fs, results,
                   successCount, failureCount, audioFiles, output,
                   outExists, runErr, limVars, callVars>>

\* downloadAudio: os.Create succeeds, io.Copy fails; the file stays
GenerateFailsWriting(w) ==
    /\ w.pc = "gen"
    /\ calls' = [calls EXCEPT ![w.task] = @ + 1]
    /\ fs' = [fs EXCEPT ![w.task] = WrittenFile(512, "ID3", w.task)]
    /\ Step(w, afterFailure(w))
    /\ UNCHANGED <<input, maxWorkers, mainPc, taskChan, resultChan,
                   resultClosed, picked, results,
                   successCount, failureCount, audioFiles, output,
                   outExists, runErr, limVars, callVars>>

\* downloadAudio: the file is written in full, then validated;
\* an invalid file is removed and the attempt fails
GenerateWritesFile(w) ==
    /\ w.pc = "gen"
    /\ calls' = [calls EXCEPT ![w.task] = @ + 1]
    /\ \E sz \in FileSizes, h \in BackendHeaders :
          LET f == WrittenFile(sz, h, w.task)
          IN IF validateAudioFile(f)
             THEN /\ fs' = [fs EXCEPT ![w.task] = f]
                  /\ Step(w, [w EXCEPT !.pc = "send",
                                       !.result = TTSResult(w.task, w.task,
                                                            FALSE)])
             ELSE /\ fs' = [fs EXCEPT ![w.task] = NoFile]
                  /\ Step(w, afterFailure(w))
    /\ UNCHANGED <<input, maxWorkers, mainPc, taskChan, resultChan,
                   resultClosed, picked, results,
                   successCount, failureCount, audioFiles, output,
                   outExists, runErr, limVars, callVars>>

\* time.Sleep(waitTime), then the next attempt
Backoff(w) ==
    /\ w.pc = "sleep"
    /\ Step(w, [w EXCEPT !.pc = "gen", !.attempt = @ + 1])
    /\ UNCHANGED <<input, maxWorkers, mainPc, taskChan, resultChan,
                   resultClosed, picked, calls, fs, results,
                   successCount, failureCount, audioFiles,
                   output, outExists, runErr, limVars, callVars>>

\* resultChan <- TTSResult{...}; the channel has room for every task.
\* The loop body ends: its locals (task, attempt, result) go out of scope
SendResult(w) ==
    /\ w.pc = "send"
    /\ Len(resultChan) < resultChanCap(Cardinality(input))
    /\ resultChan' = Append(resultChan, w.result)
    /\ Step(w, IdleWorker(afterSend(w.result)))
    /\ UNCHANGED <<input, maxWorkers, mainPc, taskChan, resultClosed,
                   picked, calls, fs, results,
                   successCount, failureCount, audioFiles, output,
                   outExists, runErr, limVars, callVars>>

(***************************************************************************)
(* mergeAudioFiles                                                         *)
(***************************************************************************)
validAudioFiles(paths, fsys) ==
    SelectSeq(paths, LAMBDA p : validateAudioFile(FileAt(fsys, p)))

\* os.Remove of every file of the list that failed validation
removeInvalid(paths, fsys) ==
    [p \in DOMAIN fsys |->
        IF p \in Range(paths) /\ ~validateAudioFile(fsys[p])
        THEN NoFile ELSE fsys[p]]

\* outputFile.ReadFrom(inputFile) for each valid file in list order
concatFiles(paths, fsys) ==
    [k \in 1 .. Len(paths) |-> FileAt(fsys, paths[k]).data]

outputTruncated(out) == <<>>

\* if len(validAudioFiles) == 0 { return error }: the return comes before
\* os.Create(outputPath), the file at the output path is not touched
outputNotCreated(out) == out

\* the validation loop finds no valid file: error, no output created
MergeReturnsEmpty ==
    /\ mainPc = "merge"
    /\ validAudioFiles(audioFiles, fs) = <<>>
    /\ fs' = removeInvalid(audioFiles, fs)
    /\ output' = outputNotCreated(output)
    /\ mainPc' = "done"
    /\ runErr' = "EmptyMerge"
    /\ UNCHANGED <<input, maxWorkers, taskChan, resultChan, resultClosed,
                   workers, picked, calls, results,
                   successCount, failureCount,
                   audioFiles, outExists,
                   limVars, callVars>>

\* validation, os.Create(outputPath), copy of every valid file
MergeWritesOutput ==
    /\ mainPc = "merge"
    /\ validAudioFiles(audioFiles, fs) # <<>>
    /\ fs' = removeInvalid(audioFiles, fs)
    /\ output' = concatFiles(validAudioFiles(audioFiles, fs), fs)
    /\ outExists' = TRUE
    /\ mainPc' = "done"
    /\ runErr' = "nil"
    /\ UNCHANGED <<input, maxWorkers, taskChan, resultChan, resultClosed,
                   workers, picked, calls, results,
                   successCount, failureCount,
                   audioFiles,
                   limVars, callVars>>

(***************************************************************************)
(* Specification of a pipeline run                                         *)
(***************************************************************************)
(***************************************************************************)
(* The cobra command handlers.  The tts, edge and init commands register a *)
(* Run handler that prints the error of the run function and returns; the  *)
(* merge command's handler also calls os.Exit(1).  Execute exits with 1    *)
(* only when rootCmd.Execute returns an error, which a Run handler never   *)
(* causes.  The tts and edge commands run the pipeline above.              *)
(***************************************************************************)
Commands == {"init", "tts", "edge", "merge"}

PipelineCommands == {"tts", "edge"}

exitStatus(cmd, err) ==
    IF cmd = "merge" /\ err # "nil" THEN 1 ELSE 0

CommandExits ==
    /\ mainPc = "done"
    /\ ret = NotReturned
    /\ \E cmd \in PipelineCommands :
          ret' = Returned([cmd |-> cmd, status |-> exitStatus(cmd, runErr)])
    /\ UNCHANGED <<runVars, limVars, arg>>

Next ==
    \/ ReturnEmptyInput
    \/ StartWorkers
    \/ CloseResultChan
    \/ CollectResult
    \/ ReturnNoResults
    \/ SortAndCallMerge
    \/ MergeReturnsEmpty
    \/ MergeWritesOutput
    \/ CommandExits
    \/ \E w \in BagToSet(workers) : ReceiveTask(w)
    \/ \E w \in BagToSet(workers) : WorkerExit(w)
    \/ \E w \in BagToSet(workers) : LimiterWait(w)
    \/ \E w \in BagToSet(workers) : GenerateFailsEarly(w)
    \/ \E w \in BagToSet(workers) : GenerateFailsWriting(w)
    \/ \E w \in BagToSet(workers) : GenerateWritesFile(w)
    \/ \E w \in BagToSet(workers) : Backoff(w)
    \/ \E w \in BagToSet(workers) : SendResult(w)

Spec == Init /\ [][Next]_vars

(***************************************************************************)
(* AudioMergeOnlyService.MergeAudioFiles (the merge command)               *)
(***************************************************************************)
\* nil error of validateSingleAudioFile for a .mp3 path
validateSingleAudioFile(f) ==
    /\ f.exists
    /\ f.size >= minFileSize
    /\ (f.hdr = "ID3" \/ f.hdr = "MPEG")

\* the files the loop copies: those that exist and pass the validation
mergeOnlyCopied(paths, fsys) ==
    SelectSeq(paths, LAMBDA p : /\ FileAt(fsys, p).exists
                                /\ validateSingleAudioFile(FileAt(fsys, p)))

\* len(audioFiles) == 0: error before anything is created
MergeOnlyNoFiles ==
    /\ mainPc = "mergeOnly"
    /\ audioFiles = <<>>
    /\ mainPc' = "done"
    /\ runErr' = "EmptyMerge"
    /\ UNCHANGED <<input, maxWorkers, taskChan, resultChan, resultClosed,
                   workers, picked, calls, fs, results,
                   successCount, failureCount, audioFiles, output,
                   outExists, limVars, callVars>>

\* os.Create(outputPath), then the loop: skip what is missing or
\* invalid, copy the rest; return nil
MergeOnlyRun ==
    /\ mainPc = "mergeOnly"
    /\ audioFiles # <<>>
    /\ outExists' = TRUE
    /\ output' = concatFiles(mergeOnlyCopied(audioFiles, fs), fs)
    /\ mainPc' = "done"
    /\ runErr' = "nil"
    /\ UNCHANGED <<input, maxWorkers, taskChan, resultChan, resultClosed,
                   workers, picked, calls, fs, results,
                   successCount, failureCount, audioFiles,
                   limVars, callVars>>

(***************************************************************************)
(* Specification of one merge call on an arbitrary list of files           *)
(***************************************************************************)
\* what a path of the list can hold when the merge is called
FileKinds == {NoFile} \cup
             {WrittenFile(sz, h, NoPath) : sz \in FileSizes, h \in Headers}

\* the dispatcher's channels and counters before any task was created
NothingDispatched ==
    /\ taskChan = <<>>
    /\ resultChan = <<>>
    /\ resultClosed = FALSE
    /\ picked = [i \in Lines |-> 0]
    /\ calls = [i \in Lines |-> 0]
    /\ results = <<>>
    /\ successCount = 0
    /\ failureCount = 0

InitMerge ==
    /\ input = {}
    /\ maxWorkers = 0
    /\ mainPc \in {"merge", "mergeOnly"}
    /\ NothingDispatched
    /\ workers = EmptyBag
    /\ fs \in {[p \in Lines |-> [k[p] EXCEPT !.data =
                                     IF k[p].exists THEN p ELSE NoPath]] :
                  k \in [Lines -> FileKinds]}
    /\ audioFiles \in {Ascending(S) : S \in SUBSET Lines}
    /\ output = <<>>
    /\ outExists = FALSE
    /\ runErr = "pending"
    /\ rateLimit = 1
    /\ tokens = Burst(rateLimit)
    /\ now = 0
    /\ granted = 0
    /\ arg = "none"
    /\ ret = NotReturned

NextMerge ==
    \/ MergeReturnsEmpty
    \/ MergeWritesOutput
    \/ MergeOnlyNoFiles
    \/ MergeOnlyRun

SpecMerge == InitMerge /\ [][NextMerge]_vars

(***************************************************************************)
(* Specification of the shared limiter under the workers' Wait calls       *)
(***************************************************************************)
\* limiter.Wait returns for a worker: one token leaves the bucket
WaitReturns(w) ==
    /\ w.pc = "wait"
    /\ tokens >= 1
    /\ tokens' = tokens - 1
    /\ granted' = granted + 1
    /\ Step(w, [w EXCEPT !.pc = "gen"])
    /\ UNCHANGED <<input, maxWorkers, mainPc, taskChan, resultChan,
                   resultClosed, picked, calls, fs, results,
                   successCount, failureCount, audioFiles,
                   output, outExists, runErr, rateLimit, now, callVars>>

\* a worker is done with its task and calls Wait for the next one
WaitAgain(w) ==
    /\ w.pc = "gen"
    /\ Step(w, [w EXCEPT !.pc = "wait"])
    /\ UNCHANGED <<input, maxWorkers, mainPc, taskChan, resultChan,
                   resultClosed, picked, calls, fs, results,
                   successCount, failureCount, audioFiles,
                   output, outExists, runErr, limVars, callVars>>

\* one emission interval passes: one token is added, up to the burst
TimePasses ==
    /\ now < MaxTicks * EmissionInterval(rateLimit)
    /\ now' = now + EmissionInterval(rateLimit)
    /\ tokens' = Min(Burst(rateLimit), tokens + 1)
    /\ UNCHANGED <<input, maxWorkers, mainPc, taskChan, resultChan,
                   resultClosed, workers, picked, calls, fs, results,
                   successCount, failureCount,
                   audioFiles, output, outExists, runErr, rateLimit,
                   granted, callVars>>

InitLimiter ==
    /\ input = {}
    /\ maxWorkers \in 1 .. MaxWorkersCfg
    /\ mainPc = "collect"
    /\ NothingDispatched
    /\ workers = Goroutines(maxWorkers, IdleWorker("wait"))
    /\ fs = [i \in Lines |-> NoFile]
    /\ audioFiles = <<>>
    /\ output = <<>>
    /\ outExists = FALSE
    /\ runErr = "pending"
    /\ rateLimit \in 1 .. MaxRate
    /\ tokens = Burst(rateLimit)
    /\ now = 0
    /\ granted = 0
    /\ arg = "none"
    /\ ret = NotReturned

NextLimiter ==
    \/ TimePasses
    \/ \E w \in BagToSet(workers) : WaitReturns(w)
    \/ \E w \in BagToSet(workers) : WaitAgain(w)

SpecLimiter == InitLimiter /\ [][NextLimiter]_vars

(***************************************************************************)
(* Properties of a pipeline run (Spec)                                     *)
(***************************************************************************)
\* indices of the collected results that carry no error
Succeeded == {r.Index : r \in {x \in Range(results) : ~x.Error}}

\* indices of the collected results that carry an error
Failed == {r.Index : r \in {x \in Range(results) : x.Error}}

\* C1: when the run returns success, the output is the concatenation of the
\* files of exactly the error-free fragments in strictly ascending index;
\* the merged indices are dispatched indices and no failed index is merged.
C1_MergedInIndexOrder ==
    (mainPc = "done" /\ runErr = "nil") =>
        /\ output = Ascending(Succeeded)
        /\ \A k \in 1 .. (Len(output) - 1) : output[k] < output[k + 1]
        /\ Range(output) \subseteq input
        /\ Range(output) \cap Failed = {}

\* C1 witness: a successful run that merged two or more fragments, left a
\* failed one out and had collected its results out of index order
C1_Witness ==
    /\ mainPc = "done"
    /\ runErr = "nil"
    /\ Len(output) >= 2
    /\ Failed # {}
    /\ \E k \in 1 .. (Len(results) - 1) :
          results[k].Index > results[k + 1].Index

\* every fragment received once, one result per fragment collected once
ExactlyOnce ==
    /\ \A i \in input : picked[i] = 1
    /\ \A i \in Lines \ input : picked[i] = 0
    /\ Len(results) = Cardinality(input)
    /\ \A i \in input :
          Cardinality({k \in 1 .. Len(results) : results[k].Index = i}) = 1

\* C2 (as amended): with MaxWorkers >= 1, once the collector has returned,
\* every fragment was received by exactly one worker and the results hold
\* exactly one entry per fragment index, successes and failures alike.
C2_ExactlyOnceWithWorkers ==
    (mainPc \in {"merge", "done"} /\ maxWorkers >= 1) => ExactlyOnce

\* C2 witness: two workers shared three fragments, one failed, one succeeded
C2_Witness ==
    /\ mainPc = "merge"
    /\ maxWorkers = 2
    /\ Cardinality(input) = 3
    /\ Failed # {}
    /\ Succeeded # {}
    /\ ExactlyOnce

\* C2 as stated, for any number of workers: fails when MaxWorkers is 0,
\* where no worker is started and no fragment is ever received
C2_ExactlyOnceAnyWorkers ==
    mainPc \in {"merge", "done"} => ExactlyOnce

\* C3: generateAudioForText runs at most MaxRetries times per fragment.
C3_RetryBound ==
    \A i \in Lines : calls[i] <= MaxRetries

\* C3 witness: a fragment that failed after using every attempt
C3_Witness ==
    \E r \in Range(results) : r.Error /\ calls[r.Index] = MaxRetries

C7_NoTempFileOfFailed ==
    mainPc = "done" => \A i \in Failed : ~fs[i].exists

(***************************************************************************)
(* Properties of one merge call (SpecMerge)                                *)
(***************************************************************************)
\* C5: every block of the output comes from a file that exists, has at
\* least minFileSize bytes and starts with an MP3 header.
C5_OnlyValidFilesMerged ==
    mainPc = "done" =>
        \A k \in 1 .. Len(output) :
            /\ output[k] \in Lines
            /\ fs[output[k]].exists
            /\ fs[output[k]].size >= minFileSize
            /\ fs[output[k]].hdr \in {"ID3", "MPEG"}

\* C5 witness: a merge that copied a file and skipped another of its list
C5_Witness ==
    /\ mainPc = "done"
    /\ outExists
    /\ Len(output) >= 1
    /\ Len(output) < Len(audioFiles)

\* some file of the list was valid when the merge was called; the merge
\* changes no valid file, so this reads the same after it
SomeListedFileValid ==
    \E p \in Range(audioFiles) :
        /\ fs[p].exists
        /\ fs[p].size >= minFileSize
        /\ fs[p].hdr \in {"ID3", "MPEG"}

\* C6: the merge returns nil exactly when some listed file is valid.
\* Violated: AudioMergeOnlyService.MergeAudioFiles returns nil for a
\* non-empty list without any valid file.
C6_SuccessIffSomeValid ==
    mainPc = "done" => (runErr = "nil" <=> SomeListedFileValid)

(***************************************************************************)
(* Properties of the limiter (SpecLimiter)                                 *)
(***************************************************************************)
\* C10: the N-th Wait does not return before (N - B)/R seconds:
\* (N - B) * 1s <= R * now.  Violated: Second \div R rounds the interval
\* down, so tokens come faster than R per second.
C10_RateBound ==
    granted > Burst(rateLimit) =>
        (granted - Burst(rateLimit)) * Second <= rateLimit * now

(***************************************************************************)
(* Limiter acquires and backend calls of a run (Spec)                      *)
(***************************************************************************)
RECURSIVE SumCalls(_)
\* generateAudioForText invocations of the run, over the indices of S
SumCalls(S) ==
    IF S = {} THEN 0
    ELSE LET i == CHOOSE x \in S : TRUE
         IN calls[i] + SumCalls(S \ {i})

\* C11: at any moment the number of backend calls started is at most the
\* number of limiter.Wait calls that have returned.  Violated: ttsWorker
\* waits once per task and generateAudioWithRetry calls the backend up to
\* MaxRetries times after it.
C11_CallsWithinGranted ==
    SumCalls(Lines) <= granted

(***************************************************************************)
(* Task creation in plain mode: the filter of the three services           *)
(***************************************************************************)
\* the dispatcher, the merge and the limiter at rest while one function
\* is looked at on its own
AtRest ==
    /\ input = {}
    /\ maxWorkers = 0
    /\ mainPc = "idle"
    /\ NothingDispatched
    /\ workers = EmptyBag
    /\ fs = [i \in Lines |-> NoFile]
    /\ audioFiles = <<>>
    /\ output = <<>>
    /\ outExists = FALSE
    /\ runErr = "pending"
    /\ rateLimit = 1
    /\ tokens = Burst(rateLimit)
    /\ now = 0
    /\ granted = 0

\* what a line of the input file can be: blank; one IsValidTextForTTS
\* rejects (e.g. "## title"); speakable text; speakable text that begins
\* with "-- " or "** " (e.g. "-- note")
LineKinds == {"blank", "invalid", "text", "dashed"}

\* all files of up to n lines
FilesUpTo(n) == UNION {[1 .. k -> LineKinds] : k \in 0 .. n}

\* TextProcessor.IsValidTextForTTS after TrimSpace
IsValidTextForTTS(kind) == kind \in {"text", "dashed"}

\* the quick prefix test of ConcurrentAudioService ("## ", "** ", "-- ", ...)
hasMarkerPrefix(kind) == kind \in {"invalid", "dashed"}

\* 0-based positions of a file
Positions(lines) == [i \in 1 .. Len(lines) |-> i - 1]

\* TTSService.ProcessInputFileConcurrent: TTSTask{Index: i} per kept line
ttsTaskIndices(lines) ==
    SelectSeq(Positions(lines),
              LAMBDA i : /\ lines[i + 1] # "blank"
                         /\ IsValidTextForTTS(lines[i + 1]))

\* UnifiedTTSService.filterValidLines: the kept lines, without position
filterValidLines(lines) ==
    SelectSeq(lines, LAMBDA l : l # "blank" /\ IsValidTextForTTS(l))

\* UnifiedTTSService.processFile: Index: i over the filtered sentences
unifiedTaskIndices(lines) == Positions(filterValidLines(lines))

\* ConcurrentAudioService.ProcessInputFileConcurrent
concurrentTaskIndices(lines) ==
    SelectSeq(Positions(lines),
              LAMBDA i : /\ lines[i + 1] # "blank"
                         /\ ~hasMarkerPrefix(lines[i + 1])
                         /\ IsValidTextForTTS(lines[i + 1]))

CreateTasksTTS ==
    /\ arg.service = "tts"
    /\ ret = NotReturned
    /\ ret' = Returned(ttsTaskIndices(arg.lines))
    /\ UNCHANGED <<runVars, limVars, arg>>

CreateTasksUnified ==
    /\ arg.service = "unified"
    /\ ret = NotReturned
    /\ ret' = Returned(unifiedTaskIndices(arg.lines))
    /\ UNCHANGED <<runVars, limVars, arg>>

CreateTasksConcurrent ==
    /\ arg.service = "concurrent"
    /\ ret = NotReturned
    /\ ret' = Returned(concurrentTaskIndices(arg.lines))
    /\ UNCHANGED <<runVars, limVars, arg>>

InitFilter ==
    /\ AtRest
    /\ arg \in [service : {"tts", "unified", "concurrent"},
                lines : FilesUpTo(NumLines)]
    /\ ret = NotReturned

NextFilter ==
    \/ CreateTasksTTS
    \/ CreateTasksUnified
    \/ CreateTasksConcurrent

SpecFilter == InitFilter /\ [][NextFilter]_vars

\* C12: the emitted indices are exactly the source line numbers of the
\* valid lines, in source order.  Violated: UnifiedTTSService numbers the
\* lines that survive the filter, and ConcurrentAudioService drops valid
\* lines that begin with a marker prefix.
C12_IndexIsLineNumber ==
    ret # NotReturned =>
        ret[1] = SelectSeq(Positions(arg.lines),
                           LAMBDA i : arg.lines[i + 1] \in {"text", "dashed"})

(***************************************************************************)
(* The three audio validators, by configured codec / file extension        *)
(***************************************************************************)
\* values of config.TTS.Codec and extensions of the files of a merge
Codecs == {"mp3", "wav", "flac", "ogg", "m4a", "pcm"}

\* leading bytes the validators tell apart
CodecHeaders == {"ID3", "MPEG", "RIFFWAVE", "fLaC", "OggS", "junk"}

\* the files a validator can be called on
CodecFiles == {NoFile} \cup
              {WrittenFile(sz, h, NoPath) : sz \in FileSizes, h \in CodecHeaders}

\* ConcurrentAudioService.validateAudioFile: switch on config.TTS.Codec
validateAudioFileByCodec(f, codec) ==
    /\ f.exists
    /\ f.size >= minFileSize
    /\ CASE codec = "mp3" -> f.hdr = "ID3" \/ f.hdr = "MPEG"
         [] codec = "wav" -> f.hdr = "RIFFWAVE"
         [] OTHER -> TRUE

\* AudioMergeOnlyService.validateSingleAudioFile: switch on the extension
validateSingleAudioFileByExt(f, ext) ==
    CASE ext = "mp3" -> validateSingleAudioFile(f)
      [] OTHER ->
           /\ f.exists
           /\ f.size >= minFileSize
           /\ CASE ext = "wav" -> f.hdr = "RIFFWAVE"
                [] ext = "flac" -> f.hdr = "fLaC"
                [] ext = "ogg" -> f.hdr = "OggS"
                [] OTHER -> TRUE

ValidateTTS ==
    /\ arg.validator = "tts"
    /\ ret = NotReturned
    /\ ret' = Returned(validateAudioFile(arg.file))
    /\ UNCHANGED <<runVars, limVars, arg>>

ValidateConcurrent ==
    /\ arg.validator = "concurrent"
    /\ ret = NotReturned
    /\ ret' = Returned(validateAudioFileByCodec(arg.file, arg.codec))
    /\ UNCHANGED <<runVars, limVars, arg>>

ValidateMergeOnly ==
    /\ arg.validator = "mergeOnly"
    /\ ret = NotReturned
    /\ ret' = Returned(validateSingleAudioFileByExt(arg.file, arg.codec))
    /\ UNCHANGED <<runVars, limVars, arg>>

InitValidate ==
    /\ AtRest
    /\ arg \in [validator : {"tts", "concurrent", "mergeOnly"},
                codec : Codecs,
                file : CodecFiles]
    /\ ret = NotReturned

NextValidate ==
    \/ ValidateTTS
    \/ ValidateConcurrent
    \/ ValidateMergeOnly

SpecValidate == InitValidate /\ [][NextValidate]_vars

\* the header rule of a codec as the claim states it
HeaderRule(h, codec) ==
    CASE codec = "mp3" -> h \in {"ID3", "MPEG"}
      [] codec = "wav" -> h = "RIFFWAVE"
      [] codec = "flac" -> h = "fLaC"
      [] codec = "ogg" -> h = "OggS"
      [] OTHER -> TRUE

\* C13: a validator accepts a file iff it exists, has at least minFileSize
\* bytes and its leading bytes match the rule of the configured codec.
\* Violated: TTSService.validateAudioFile applies the MP3 rule whatever the
\* codec, ConcurrentAudioService checks only the size for flac and ogg.
C13_AcceptsIffCodecRule ==
    ret # NotReturned =>
        (ret[1] <=> /\ arg.file.exists
                    /\ arg.file.size >= minFileSize
                    /\ HeaderRule(arg.file.hdr, arg.codec))

(***************************************************************************)
(* The polling loops of the cloud-task backend                             *)
(***************************************************************************)
\* maxWaitTime of waitForTaskAndDownload, in seconds
maxWaitTime == 60
\* checkInterval of waitForTaskAndDownload, in seconds
checkInterval == 2
\* maxRetries of waitForTTSCompletion
maxPollRetries == 30
\* retryInterval of waitForTTSCompletion, in seconds
retryInterval == 6
\* longest time one status query takes, in seconds
MaxQueryTime == 1

\* task states the service can report (7: one it does not document)
TaskStatuses == {-1, 0, 1, 2, 3, 7}

\* answers of DescribeTTSTaskStatus: a transport / API error, or a status,
\* with or without an audio URL
StatusResponses ==
    {[ok |-> FALSE, status |-> 0, url |-> FALSE]} \cup
    {[ok |-> TRUE, status |-> st, url |-> u] :
        st \in TaskStatuses, u \in BOOLEAN}

\* the switch of TTSService / TencentTTSProvider.waitForTaskAndDownload
pollOutcome(resp) ==
    IF ~resp.ok THEN "queryError"
    ELSE CASE resp.status = 2 -> IF resp.url THEN "download" ELSE "noURL"
           [] resp.status = 3 -> "failed"
           [] resp.status \in {0, 1} -> "pending"
           [] OTHER -> "unknownStatus"

\* the tests of ConcurrentAudioService.waitForTTSCompletion
pollOutcomeConcurrent(resp) ==
    IF ~resp.ok THEN "queryError"
    ELSE IF resp.status = 2 THEN (IF resp.url THEN "download" ELSE "noURL")
    ELSE IF resp.status = -1 THEN "failed"
    ELSE "pending"

\* the loop after one query that took d seconds and was answered resp
AfterPoll(resp, d, outcome, interval) ==
    /\ arg' = [arg EXCEPT !.polls = @ + 1,
                          !.lastAt = arg.elapsed,
                          !.last = resp,
                          !.elapsed = IF outcome = "pending"
                                      THEN @ + d + interval ELSE @ + d]
    /\ ret' = IF outcome = "pending" THEN NotReturned ELSE Returned(outcome)

\* one iteration of for time.Since(startTime) < maxWaitTime { ... }
PollTask ==
    /\ arg.service \in {"tts", "tencent"}
    /\ ret = NotReturned
    /\ arg.elapsed < maxWaitTime
    /\ \E resp \in StatusResponses, d \in 0 .. MaxQueryTime :
          AfterPoll(resp, d, pollOutcome(resp), checkInterval)
    /\ UNCHANGED <<runVars, limVars>>

\* the loop condition fails: the timeout error
PollTimeout ==
    /\ arg.service \in {"tts", "tencent"}
    /\ ret = NotReturned
    /\ arg.elapsed >= maxWaitTime
    /\ ret' = Returned("timeout")
    /\ UNCHANGED <<runVars, limVars, arg>>

\* one iteration of for i := 0; i < maxRetries; i++ { ... }
PollTaskConcurrent ==
    /\ arg.service = "concurrent"
    /\ ret = NotReturned
    /\ arg.polls < maxPollRetries
    /\ \E resp \in StatusResponses, d \in 0 .. MaxQueryTime :
          AfterPoll(resp, d, pollOutcomeConcurrent(resp), retryInterval)
    /\ UNCHANGED <<runVars, limVars>>

PollTimeoutConcurrent ==
    /\ arg.service = "concurrent"
    /\ ret = NotReturned
    /\ arg.polls >= maxPollRetries
    /\ ret' = Returned("timeout")
    /\ UNCHANGED <<runVars, limVars, arg>>

InitPoll ==
    /\ AtRest
    /\ arg \in [service : {"tts", "tencent", "concurrent"},
                polls : {0}, elapsed : {0}, lastAt : {0},
                last : {[ok |-> FALSE, status |-> 0, url |-> FALSE]}]
    /\ ret = NotReturned

NextPoll ==
    \/ PollTask
    \/ PollTimeout
    \/ PollTaskConcurrent
    \/ PollTimeoutConcurrent

SpecPoll == InitPoll /\ [][NextPoll]_vars

\* C14: after a poll, status 2 with a URL has led to the download, status 3
\* to a failure, any status but 0, 1, 2, 3 to a protocol error, and only
\* status 0 or 1 lets the loop go on.  Violated: waitForTTSCompletion polls
\* again on every status but 2 and -1.
C14_StatusDecidesPoll ==
    (arg.polls >= 1 /\ arg.last.ok) =>
        /\ (arg.last.status = 2 /\ arg.last.url) => ret = Returned("download")
        /\ arg.last.status = 3 => ret = Returned("failed")
        /\ arg.last.status \notin {0, 1, 2, 3} => ret = Returned("unknownStatus")
        /\ arg.last.status \notin {0, 1} => ret # NotReturned

\* C15: a status query is made only while less than maxWaitTime has
\* elapsed, at most 30 of them are made, and an attempt whose polls were
\* all pending ends with the timeout error by then.  Violated:
\* waitForTTSCompletion polls 30 times 6 s apart.
C15_PollsWithinTimeout ==
    /\ arg.polls <= 30
    /\ arg.lastAt < maxWaitTime
    /\ ret = Returned("timeout") =>
          arg.elapsed <= maxWaitTime + MaxQueryTime + checkInterval

(***************************************************************************)
(* A run without any valid line (Spec)                                     *)
(***************************************************************************)
\* C16: if the filter leaves no fragment, the run returns the EmptyInput
\* error; no worker is started, no limiter.Wait returns, no backend call
\* is made and the output file is neither created nor written.
C16_EmptyInputReturnsAtOnce ==
    input = {} =>
        /\ workers = EmptyBag
        /\ granted = 0
        /\ SumCalls(Lines) = 0
        /\ ~outExists
        /\ output = <<>>
        /\ mainPc = "done" => runErr = "EmptyInput"

\* C16 witness: a run on an input without valid lines has returned
C16_Witness ==
    /\ input = {}
    /\ mainPc = "done"
    /\ runErr = "EmptyInput"
    /\ maxWorkers >= 1

(***************************************************************************)
(* C17: every command exits with status 0 when its run function succeeds   *)
(* and with a non-zero status whenever its run function returns an error.  *)
(***************************************************************************)
C17_ExitStatusReflectsError ==
    ret # NotReturned => (ret[1].status = 0 <=> runErr = "nil")

(***************************************************************************)
(* The merge command's ordering of the scanned files                       *)
(* (extractNumberFromFilename, sortAudioFilesByNumber).  A file name is a  *)
(* sequence of byte values; Go compares strings byte by byte.              *)
(***************************************************************************)
MaxFiles == 3

noNumber == 999999

Ext == <<46, 109, 112, 51>>                        \* ".mp3"

FileNames ==
    { <<97>> \o Ext,                               \* a.mp3
      <<98>> \o Ext,                               \* b.mp3
      <<97, 49>> \o Ext,                           \* a1.mp3
      <<98, 49>> \o Ext,                           \* b1.mp3
      <<97, 48, 50>> \o Ext,                       \* a02.mp3
      <<49, 50, 95, 51, 52>> \o Ext,               \* 12_34.mp3
      <<97, 49, 95, 48, 48, 51>> \o Ext,           \* a1_003.mp3
      <<97, 57, 57, 57, 57, 57, 57>> \o Ext,       \* a999999.mp3
      <<97, 49, 48, 48, 48, 48, 48, 48>> \o Ext,   \* a1000000.mp3
      <<98, 49, 48, 48, 48, 48, 48, 48>> \o Ext }  \* b1000000.mp3

isDigit(c) == c \in 48..57

\* filepath.Ext: the suffix that starts at the last dot
RECURSIVE lastDot(_, _)
lastDot(s, i) ==
    IF i = 0 THEN 0
    ELSE IF s[i] = 46 THEN i
    ELSE lastDot(s, i - 1)

\* strings.TrimSuffix(filename, filepath.Ext(filename))
nameWithoutExt(filename) ==
    LET d == lastDot(filename, Len(filename))
    IN  IF d = 0 THEN filename ELSE SubSeq(filename, 1, d - 1)

\* regexp \d+ with FindAllString: the maximal digit runs, left to right
RECURSIVE FindAllDigits(_, _, _)
FindAllDigits(s, i, cur) ==
    LET done == IF cur = <<>> THEN <<>> ELSE <<cur>>
    IN  IF i > Len(s) THEN done
        ELSE IF isDigit(s[i]) THEN FindAllDigits(s, i + 1, Append(cur, s[i]))
        ELSE done \o FindAllDigits(s, i + 1, <<>>)

\* the loop over matches: the first match of the greatest length
RECURSIVE bestMatch(_, _)
bestMatch(matches, best) ==
    IF matches = <<>> THEN best
    ELSE IF Len(Head(matches)) > Len(best)
         THEN bestMatch(Tail(matches), Head(matches))
         ELSE bestMatch(Tail(matches), best)

\* strconv.Atoi of a digit run (the runs of FileNames fit in an int)
RECURSIVE Atoi(_)
Atoi(digits) ==
    IF digits = <<>> THEN 0
    ELSE Atoi(SubSeq(digits, 1, Len(digits) - 1)) * 10
           + (digits[Len(digits)] - 48)

extractNumberFromFilename(filename) ==
    LET matches == FindAllDigits(nameWithoutExt(filename), 1, <<>>)
    IN  IF matches = <<>> THEN noNumber
        ELSE Atoi(bestMatch(matches, <<>>))

\* Go's < on strings
RECURSIVE stringLess(_, _)
stringLess(a, b) ==
    IF b = <<>> THEN FALSE
    ELSE IF a = <<>> THEN TRUE
    ELSE IF Head(a) # Head(b) THEN Head(a) < Head(b)
    ELSE stringLess(Tail(a), Tail(b))

AudioFileInfo(name) ==
    [Name |-> name, Number |-> extractNumberFromFilename(name)]

\* the less function of sortAudioFilesByNumber
lessByNumber(x, y) ==
    IF x.Number # y.Number THEN x.Number < y.Number
    ELSE stringLess(x.Name, y.Name)

\* sort.Slice over files of distinct names: the one ordering less allows
RECURSIVE sortAudioFilesByNumber(_)
sortAudioFilesByNumber(files) ==
    IF files = {} THEN <<>>
    ELSE LET first == CHOOSE x \in files :
                          \A y \in files \ {x} : lessByNumber(x, y)
         IN  <<first>> \o sortAudioFilesByNumber(files \ {first})

\* runMerge: scanAudioFiles, then sortAudioFilesByNumber
SortScannedFiles ==
    /\ ret = NotReturned
    /\ ret' = Returned(sortAudioFilesByNumber({AudioFileInfo(n) : n \in arg}))
    /\ UNCHANGED <<runVars, limVars, arg>>

InitSort ==
    /\ AtRest
    /\ arg \in {S \in SUBSET FileNames : Cardinality(S) \in 1..MaxFiles}
    /\ ret = NotReturned

NextSort == SortScannedFiles

SpecSort == InitSort /\ [][NextSort]_vars

hasDigits(name) == FindAllDigits(nameWithoutExt(name), 1, <<>>) # <<>>

longestRunValue(name) ==
    Atoi(bestMatch(FindAllDigits(nameWithoutExt(name), 1, <<>>), <<>>))

\* the ordering the merge command is documented to produce
documentedBefore(x, y) ==
    IF hasDigits(x) /\ hasDigits(y)
    THEN \/ longestRunValue(x) < longestRunValue(y)
         \/ /\ longestRunValue(x) = longestRunValue(y)
            /\ stringLess(x, y)
    ELSE hasDigits(x) \/ ~hasDigits(y)

(***************************************************************************)
(* C18: the merge command orders the files by the numeric value of the     *)
(* longest digit run of the name, ties by name, and every file without a   *)
(* digit after every file with one, whatever the magnitude of the number.  *)
(***************************************************************************)
C18_OrderedByLongestDigitRun ==
    ret # NotReturned =>
        \A i \in 1..Len(ret[1]) : \A j \in 1..Len(ret[1]) :
            i < j => documentedBefore(ret[1][i].Name, ret[1][j].Name)

(***************************************************************************)
(* Construction of the services' limiters.  NewUnifiedTTSService replaces  *)
(* a rate limit <= 0 by the provider's recommended rate; NewTTSService,    *)
(* NewConcurrentAudioService and NewEdgeTTSService divide time.Second by   *)
(* the configured value as it is.  A Go integer division by zero panics;   *)
(* rate.Every of an interval <= 0 is rate.Inf, written here as the         *)
(* interval 0.                                                             *)
(***************************************************************************)
MaxRateLimitCfg == 6

Constructors ==
    { [service |-> "TTSService",             provider |-> "tencent"],
      [service |-> "ConcurrentAudioService", provider |-> "tencent"],
      [service |-> "EdgeTTSService",         provider |-> "edge"],
      [service |-> "UnifiedTTSService",      provider |-> "tencent"],
      [service |-> "UnifiedTTSService",      provider |-> "edge"] }

GetRecommendedRateLimit(provider) ==
    IF provider = "tencent" THEN 5 ELSE 10

\* Go's / on a non-negative dividend: truncation towards zero
GoDiv(a, b) == IF b < 0 THEN 0 - (a \div (0 - b)) ELSE a \div b

Panicked == [panicked |-> TRUE, every |-> 0, burst |-> 0]

\* rate.NewLimiter(rate.Every(time.Second / time.Duration(r)), r)
newLimiter(r) ==
    IF r = 0 THEN Panicked
    ELSE LET interval == GoDiv(Second, r)
         IN  [panicked |-> FALSE,
              every    |-> IF interval <= 0 THEN 0 ELSE interval,
              burst    |-> r]

NewTTSService ==
    /\ ret = NotReturned
    /\ arg.service = "TTSService"
    /\ ret' = Returned(newLimiter(arg.rateLimit))
    /\ UNCHANGED <<runVars, limVars, arg>>

NewConcurrentAudioService ==
    /\ ret = NotReturned
    /\ arg.service = "ConcurrentAudioService"
    /\ ret' = Returned(newLimiter(arg.rateLimit))
    /\ UNCHANGED <<runVars, limVars, arg>>

NewEdgeTTSService ==
    /\ ret = NotReturned
    /\ arg.service = "EdgeTTSService"
    /\ ret' = Returned(newLimiter(arg.rateLimit))
    /\ UNCHANGED <<runVars, limVars, arg>>

NewUnifiedTTSService ==
    /\ ret = NotReturned
    /\ arg.service = "UnifiedTTSService"
    /\ LET r == IF arg.rateLimit <= 0
                THEN GetRecommendedRateLimit(arg.provider)
                ELSE arg.rateLimit
       IN  ret' = Returned(newLimiter(r))
    /\ UNCHANGED <<runVars, limVars, arg>>

InitConstruct ==
    /\ AtRest
    /\ \E c \in Constructors :
       \E r \in (0 - MaxRateLimitCfg)..MaxRateLimitCfg :
          arg = [service |-> c.service, provider |-> c.provider,
                 rateLimit |-> r]
    /\ ret = NotReturned

NextConstruct ==
    \/ NewTTSService
    \/ NewConcurrentAudioService
    \/ NewEdgeTTSService
    \/ NewUnifiedTTSService

SpecConstruct == InitConstruct /\ [][NextConstruct]_vars

(***************************************************************************)
(* C19: with a configured rate limit <= 0, constructing any of the         *)
(* services completes and yields a limiter whose rate and burst are the    *)
(* recommended rate of the backend (5 for Tencent, 10 for Edge).           *)
(***************************************************************************)
C19_NonPositiveRateDefaults ==
    (ret # NotReturned /\ arg.rateLimit <= 0) =>
        /\ ~ret[1].panicked
        /\ ret[1].burst = GetRecommendedRateLimit(arg.provider)
        /\ ret[1].every = Second \div GetRecommendedRateLimit(arg.provider)

(***************************************************************************)
(* TextProcessor.ProcessText on short strings.  A string is a sequence of  *)
(* characters; "zh" stands for a Han character.  The input characters are  *)
(* a letter, the space, the at sign, the backslash and a Han character;    *)
(* the letter t appears in the replacement of the at sign.  On strings of  *)
(* these characters the patterns of removeTables, removeImages,            *)
(* processLinks, removeHTMLTags, removeOtherMarkdownElements,              *)
(* processMarkdownFormatting and processRemoveEmojis match nothing,        *)
(* isInSpecialContext is false, and processBrackets returns every match    *)
(* as it is; the steps below are the ones that can change such a string.   *)
(***************************************************************************)
MaxLen == 3

Chars == {"a", " ", "@", "\\", "zh"}

Strings == UNION {[1..k -> Chars] : k \in 0..MaxLen}

isSpace(c) == c = " "

isEnglish(c) == c \in {"a", "t", "a10", "a100"}

isChinese(c) == c = "zh"

\* removeCodeBlocks: a line indented by four spaces is removed
removeCodeBlocks(text) ==
    IF Len(text) >= 4 /\ \A i \in 1..4 : isSpace(text[i]) THEN <<>> ELSE text

\* strings.ReplaceAll: the non-overlapping occurrences, left to right
RECURSIVE ReplaceAll(_, _, _)
ReplaceAll(text, old, new) ==
    IF Len(text) < Len(old) THEN text
    ELSE IF SubSeq(text, 1, Len(old)) = old
         THEN new \o ReplaceAll(SubSeq(text, Len(old) + 1, Len(text)), old, new)
         ELSE <<Head(text)>> \o ReplaceAll(Tail(text), old, new)

\* the entries of the replacements map whose key can occur in a string of
\* the characters above: \\ -> \, \@ -> @, \t -> space
EscapeReplacements ==
    { [escaped |-> <<"\\", "\\">>, unescaped |-> <<"\\">>],
      [escaped |-> <<"\\", "@">>,  unescaped |-> <<"@">>],
      [escaped |-> <<"\\", "t">>,  unescaped |-> <<" ">>] }

\* the orders in which a range over the map can visit these entries
MapOrders ==
    {o \in [1..Cardinality(EscapeReplacements) -> EscapeReplacements] :
        \A i, j \in DOMAIN o : o[i] = o[j] => i = j}

RECURSIVE processEscapeCharacters(_, _)
processEscapeCharacters(text, order) ==
    IF order = <<>> THEN text
    ELSE processEscapeCharacters(
             ReplaceAll(text, Head(order).escaped, Head(order).unescaped),
             Tail(order))

\* processSpecialSymbols for the at sign: the matches of (\s|^)@(\s|$),
\* leftmost and non-overlapping, with the symbol replaced by "at"
RECURSIVE replaceStandalone(_, _)
replaceStandalone(text, atStart) ==
    IF text = <<>> THEN <<>>
    ELSE IF /\ isSpace(text[1])
            /\ Len(text) >= 2
            /\ text[2] = "@"
            /\ (Len(text) = 2 \/ isSpace(text[3]))
         THEN <<text[1], "a", "t">>
                \o (IF Len(text) = 2 THEN <<>> ELSE <<text[3]>>)
                \o replaceStandalone(SubSeq(text, 4, Len(text)), FALSE)
    ELSE IF /\ atStart
            /\ text[1] = "@"
            /\ (Len(text) = 1 \/ isSpace(text[2]))
         THEN <<"a", "t">>
                \o (IF Len(text) = 1 THEN <<>> ELSE <<text[2]>>)
                \o replaceStandalone(SubSeq(text, 3, Len(text)), FALSE)
    ELSE <<text[1]>> \o replaceStandalone(Tail(text), FALSE)

processSpecialSymbols(text) == replaceStandalone(text, TRUE)

\* regexp \s+ replaced by one space
RECURSIVE collapseSpaces(_)
collapseSpaces(text) ==
    IF Len(text) < 2 THEN text
    ELSE IF isSpace(text[1]) /\ isSpace(text[2])
         THEN collapseSpaces(Tail(text))
         ELSE <<text[1]>> \o collapseSpaces(Tail(text))

\* strings.TrimSpace of a string whose runs of spaces have length one
TrimSpace(text) ==
    LET from == IF text # <<>> /\ isSpace(text[1]) THEN 2 ELSE 1
        to   == IF text # <<>> /\ isSpace(text[Len(text)])
                THEN Len(text) - 1 ELSE Len(text)
    IN  SubSeq(text, from, to)

normalizeWhitespaceText(text) == TrimSpace(collapseSpaces(text))

\* processMixedLanguageText: a space between a Han character and a letter
RECURSIVE mixedFrom(_, _)
mixedFrom(runes, i) ==
    IF i > Len(runes) THEN <<>>
    ELSE LET r    == runes[i]
             gap  == /\ i > 1
                     /\ \/ isChinese(runes[i - 1]) /\ isEnglish(r)
                        \/ isEnglish(runes[i - 1]) /\ isChinese(r)
         IN  (IF gap THEN <<" ", r>> ELSE <<r>>) \o mixedFrom(runes, i + 1)

processMixedLanguageText(text) == mixedFrom(text, 1)

ProcessText(text, order) ==
    IF text = <<>> THEN text
    ELSE processMixedLanguageText(
             normalizeWhitespaceText(
                 processSpecialSymbols(
                     processEscapeCharacters(removeCodeBlocks(text), order))))

ProcessTextOnce ==
    /\ arg.once = NotReturned
    /\ \E order \in MapOrders :
          arg' = [arg EXCEPT !.once = Returned(ProcessText(arg.x, order))]
    /\ UNCHANGED <<runVars, limVars, ret>>

ProcessTextAgain ==
    /\ arg.once # NotReturned
    /\ ret = NotReturned
    /\ \E order \in MapOrders :
          ret' = Returned(ProcessText(arg.once[1], order))
    /\ UNCHANGED <<runVars, limVars, arg>>

InitText ==
    /\ AtRest
    /\ \E x \in Strings : arg = [x |-> x, once |-> NotReturned]
    /\ ret = NotReturned

NextText ==
    \/ ProcessTextOnce
    \/ ProcessTextAgain

SpecText == InitText /\ [][NextText]_vars

(***************************************************************************)
(* C20: ProcessText is idempotent: ProcessText(ProcessText(x)) equals      *)
(* ProcessText(x) for every string x.                                      *)
(***************************************************************************)
C20_ProcessTextIdempotent ==
    ret # NotReturned => ret[1] = arg.once[1]

(***************************************************************************)
(* MarkdownProcessor.ExtractTextForTTS and SplitIntoSentences.  A document *)
(* is the tree blackfriday parses; a node is named by its path from the    *)
(* root, and the literal of a Text or Code node is written as one token    *)
(* that carries this path, followed by a full stop when the text ends a    *)
(* sentence.  Node.Walk calls RenderNode on entering every node and on     *)
(* leaving every container whose children were not skipped.  The documents *)
(* hold no HTML nodes.                                                     *)
(***************************************************************************)
MaxBlocks == 2

Node(type, kids) == [type |-> type, kids |-> kids, stop |-> FALSE]

TextNode == Node("Text", <<>>)

TextStop == [type |-> "Text", kids |-> <<>>, stop |-> TRUE]

CodeSpan == Node("Code", <<>>)

Emph == Node("Emph", <<TextNode>>)

Image == Node("Image", <<TextNode>>)

LinkShapes ==
    { <<TextNode>>, <<Emph>>, <<TextNode, Emph>>, <<Emph, TextNode>>,
      <<TextNode, CodeSpan>>, <<Image>> }

ParagraphShapes ==
    { <<TextNode>>, <<TextStop>>, <<TextStop, TextNode>>, <<TextNode, Emph>>,
      <<CodeSpan, TextStop>>, <<Image, TextNode>> }
    \cup {<<Node("Link", l)>> : l \in LinkShapes}
    \cup {<<TextNode, Node("Link", l), TextStop>> : l \in LinkShapes}

HeadingShapes ==
    { <<TextNode>>, <<TextStop>>, <<Emph>>, <<Node("Link", <<TextNode>>)>>,
      <<Node("Link", <<Emph, TextNode>>)>>, <<CodeSpan>> }

TableNode ==
    Node("Table",
         << Node("TableHead", <<Node("TableRow", <<Node("TableCell", <<TextNode>>)>>)>>),
            Node("TableBody", <<Node("TableRow", <<Node("TableCell", <<TextStop>>)>>)>>) >>)

Blocks ==
    {Node("Paragraph", k) : k \in ParagraphShapes}
    \cup {Node("Heading", k) : k \in HeadingShapes}
    \cup {Node("CodeBlock", <<>>), TableNode}
    \cup {Node("BlockQuote", <<Node("Paragraph", <<TextStop>>)>>)}
    \cup {Node("List", <<Node("Item", <<Node("Paragraph", <<TextNode>>)>>)>>)}

Documents ==
    {Node("Document", k) : k \in UNION {[1..n -> Blocks] : n \in 1..MaxBlocks}}

RECURSIVE NodeAt(_, _)
NodeAt(node, path) ==
    IF path = <<>> THEN node ELSE NodeAt(node.kids[Head(path)], Tail(path))

Parent(path) == SubSeq(path, 1, Len(path) - 1)

\* blackfriday's Node.IsContainer
IsContainer(node) == node.type \notin {"Text", "Code", "CodeBlock"}

Piece(path) == [k |-> "text", p |-> path]

StopToken == [k |-> "stop", p |-> <<>>]

SpaceToken == [k |-> "space", p |-> <<>>]

NewlineToken == [k |-> "newline", p |-> <<>>]

\* string(node.Literal)
Literal(doc, path) ==
    <<Piece(path)>> \o (IF NodeAt(doc, path).stop THEN <<StopToken>> ELSE <<>>)

headingStatusGoToNext == "GoToNext"

headingStatus == "SkipChildren"

\* TTSRenderer.RenderNode: the walk status and the renderer afterwards
RenderNode(r, doc, path, entering) ==
    LET node == NodeAt(doc, path)
        skip == [status |-> "SkipChildren", buffer |-> r.buffer,
                 linkText |-> r.linkText]
        go   == [status |-> "GoToNext", buffer |-> r.buffer,
                 linkText |-> r.linkText]
    IN  CASE node.type = "CodeBlock" -> skip
          [] node.type = "Code" ->
                IF entering
                THEN [skip EXCEPT !.buffer =
                          r.buffer \o Literal(doc, path) \o <<SpaceToken>>]
                ELSE skip
          [] node.type = "Image" -> skip
          [] node.type = "Link" ->
                IF entering THEN [go EXCEPT !.linkText = <<>>]
                ELSE IF r.linkText # <<>>
                     THEN [go EXCEPT !.buffer =
                               r.buffer \o r.linkText \o <<SpaceToken>>]
                     ELSE go
          [] node.type = "Text" ->
                IF path # <<>> /\ NodeAt(doc, Parent(path)).type = "Link"
                THEN [go EXCEPT !.linkText = r.linkText \o Literal(doc, path)]
                ELSE [go EXCEPT !.buffer =
                          r.buffer \o Literal(doc, path) \o <<SpaceToken>>]
          [] node.type = "Heading" -> [go EXCEPT !.status = headingStatus]
          [] node.type \in {"Paragraph", "List", "Item", "BlockQuote"} ->
                IF entering THEN go
                ELSE [go EXCEPT !.buffer = r.buffer \o <<NewlineToken>>]
          [] node.type \in {"Table", "TableHead", "TableBody", "TableRow",
                            "TableCell"} -> skip
          [] OTHER -> go

\* nodeWalker.next: the node visited next, or the end of the walk
walkerNext(doc, path, entering) ==
    LET node == NodeAt(doc, path)
    IN  IF (~IsContainer(node) \/ ~entering) /\ path = <<>>
        THEN [current |-> FALSE, path |-> <<>>, entering |-> FALSE]
        ELSE IF entering /\ IsContainer(node)
        THEN IF node.kids # <<>>
             THEN [current |-> TRUE, path |-> Append(path, 1),
                   entering |-> TRUE]
             ELSE [current |-> TRUE, path |-> path, entering |-> FALSE]
        ELSE IF path[Len(path)] = Len(NodeAt(doc, Parent(path)).kids)
        THEN [current |-> TRUE, path |-> Parent(path), entering |-> FALSE]
        ELSE [current |-> TRUE,
              path |-> Append(Parent(path), path[Len(path)] + 1),
              entering |-> TRUE]

\* one turn of the loop of Node.Walk
WalkStep ==
    /\ arg.current
    /\ LET r == RenderNode(arg, arg.doc, arg.path, arg.entering)
           w == walkerNext(arg.doc, arg.path,
                           IF r.status = "SkipChildren" THEN FALSE
                           ELSE arg.entering)
       IN  arg' = [arg EXCEPT !.buffer = r.buffer, !.linkText = r.linkText,
                              !.current = w.current, !.path = w.path,
                              !.entering = w.entering]
    /\ UNCHANGED <<runVars, limVars, ret>>

isBlank(token) == token.k \in {"space", "newline"}

\* regexp \s+ replaced by one space
RECURSIVE collapseBlanks(_)
collapseBlanks(text) ==
    IF text = <<>> THEN <<>>
    ELSE IF isBlank(text[1])
         THEN IF Len(text) >= 2 /\ isBlank(text[2])
              THEN collapseBlanks(Tail(text))
              ELSE <<SpaceToken>> \o collapseBlanks(Tail(text))
         ELSE <<text[1]>> \o collapseBlanks(Tail(text))

trimBlanks(text) ==
    LET from == IF text # <<>> /\ isBlank(text[1]) THEN 2 ELSE 1
        to   == IF text # <<>> /\ isBlank(text[Len(text)])
                THEN Len(text) - 1 ELSE Len(text)
    IN  SubSeq(text, from, to)

cleanupText(text) == trimBlanks(collapseBlanks(text))

\* the matches of [.!?](?:\s|$)
endsSentence(text, i) ==
    /\ text[i].k = "stop"
    /\ (i = Len(text) \/ isBlank(text[i + 1]))

\* the parts between the matches, each with its match added back
RECURSIVE splitParts(_, _, _)
splitParts(text, i, part) ==
    IF i > Len(text)
    THEN IF trimBlanks(part) = <<>> THEN <<>> ELSE <<trimBlanks(part)>>
    ELSE IF endsSentence(text, i)
    THEN LET match == IF i = Len(text) THEN <<text[i]>>
                      ELSE <<text[i], text[i + 1]>>
             rest  == splitParts(text, i + Len(match), <<>>)
         IN  IF trimBlanks(part) = <<>> THEN rest
             ELSE <<trimBlanks(part) \o match>> \o rest
    ELSE splitParts(text, i + 1, Append(part, text[i]))

\* cleanupText leaves no newline, so the text is one paragraph
SplitIntoSentences(text) ==
    IF text = <<>> THEN <<>>
    ELSE IF \E i \in DOMAIN text : endsSentence(text, i)
         THEN splitParts(text, 1, <<>>)
         ELSE <<text>>

FinishExtract ==
    /\ ~arg.current
    /\ ret = NotReturned
    /\ ret' = Returned(SplitIntoSentences(cleanupText(arg.buffer)))
    /\ UNCHANGED <<runVars, limVars, arg>>

InitExtract ==
    /\ AtRest
    /\ \E doc \in Documents :
          arg = [doc |-> doc, current |-> TRUE, path |-> <<>>,
                 entering |-> TRUE, buffer |-> <<>>, linkText |-> <<>>]
    /\ ret = NotReturned

NextExtract ==
    \/ WalkStep
    \/ FinishExtract

SpecExtract == InitExtract /\ [][NextExtract]_vars

SkippedTypes == {"CodeBlock", "Table", "Heading", "Image"}

\* the node at path lies in or below a node of a skipped type
InsideSkipped(doc, path) ==
    \E n \in 0..Len(path) : NodeAt(doc, SubSeq(path, 1, n)).type \in SkippedTypes

\* the literals of the sentences, in the order of emission
RECURSIVE Flatten(_)
Flatten(seqs) ==
    IF seqs = <<>> THEN <<>> ELSE Head(seqs) \o Flatten(Tail(seqs))

EmittedPaths(sentences) ==
    LET all == Flatten(sentences)
    IN  SelectSeq(all, LAMBDA t : t.k = "text")

(***************************************************************************)
(* C21: no sentence emitted for a document holds text of a node that lies  *)
(* in or below a code block, a table, a heading or an image.               *)
(***************************************************************************)
C21_SkippedNodesNotEmitted ==
    /\ \A i \in DOMAIN arg.buffer :
          arg.buffer[i].k = "text" => ~InsideSkipped(arg.doc, arg.buffer[i].p)
    /\ ret # NotReturned =>
          \A i \in DOMAIN EmittedPaths(ret[1]) :
              ~InsideSkipped(arg.doc, EmittedPaths(ret[1])[i].p)

C21_Witness ==
    /\ ret # NotReturned
    /\ ret[1] # <<>>
    /\ \E b \in DOMAIN arg.doc.kids :
          /\ arg.doc.kids[b].type = "Heading"
          /\ arg.doc.kids[b].kids[1].type = "Link"

\* document order of two nodes: the order of their paths
RECURSIVE PathBefore(_, _)
PathBefore(p, q) ==
    IF q = <<>> THEN FALSE
    ELSE IF p = <<>> THEN TRUE
    ELSE IF Head(p) # Head(q) THEN Head(p) < Head(q)
    ELSE PathBefore(Tail(p), Tail(q))

(***************************************************************************)
(* C22: the pieces of text emitted for a document appear in the order of   *)
(* the document, the pieces of a link with nested inline nodes included.   *)
(***************************************************************************)
C22_EmittedInDocumentOrder ==
    ret # NotReturned =>
        LET out == EmittedPaths(ret[1])
        IN  \A i \in DOMAIN out : \A j \in DOMAIN out :
                i < j => PathBefore(out[i].p, out[j].p)

(***************************************************************************)
(* Choice of the processing mode by the tts and edge commands (runTTS,     *)
(* runEdgeTTS).  The flag variable holds false unless --smart-markdown     *)
(* sets it.                                                                *)
(***************************************************************************)
InputFiles == {"doc.md", "DOC.MD", "doc.markdown", "doc.txt", "doc"}

\* strings.ToLower(filepath.Ext(name))
lowerExt(name) ==
    CASE name \in {"doc.md", "DOC.MD"} -> ".md"
      [] name = "doc.markdown" -> ".markdown"
      [] name = "doc.txt" -> ".txt"
      [] OTHER -> ""

\* runTTS: the mode after the input file override
RunTTSMode ==
    /\ ret = NotReturned
    /\ arg.cmd = "tts"
    /\ LET detected ==
               /\ arg.inputFile # ""
               /\ lowerExt(arg.inputFile) \in {".md", ".markdown"}
               /\ ~arg.flagChanged
       IN  ret' = Returned(IF detected THEN TRUE ELSE arg.smartMarkdown)
    /\ UNCHANGED <<runVars, limVars, arg>>

\* runEdgeTTS: the flag alone
RunEdgeMode ==
    /\ ret = NotReturned
    /\ arg.cmd = "edge"
    /\ ret' = Returned(arg.smartMarkdown)
    /\ UNCHANGED <<runVars, limVars, arg>>

InitMode ==
    /\ AtRest
    /\ \E cmd \in PipelineCommands :
       \E i \in InputFiles \cup {""} :
       \E c \in InputFiles :
       \E changed \in BOOLEAN :
       \E value \in BOOLEAN :
          /\ ~changed => ~value
          /\ arg = [cmd |-> cmd, inputFile |-> i, configInput |-> c,
                    flagChanged |-> changed, smartMarkdown |-> value]
    /\ ret = NotReturned

NextMode ==
    \/ RunTTSMode
    \/ RunEdgeMode

SpecMode == InitMode /\ [][NextMode]_vars

effectiveInput == IF arg.inputFile # "" THEN arg.inputFile ELSE arg.configInput

(***************************************************************************)
(* C23: for the tts and the edge command, Markdown mode is used when the   *)
(* effective input file (-i, else the configured one) ends in .md or       *)
(* .markdown and --smart-markdown was not given; when the flag was given,  *)
(* its value decides.                                                      *)
(***************************************************************************)
C23_MarkdownModeChoice ==
    ret # NotReturned =>
        ret[1] = IF arg.flagChanged THEN arg.smartMarkdown
                 ELSE lowerExt(effectiveInput) \in {".md", ".markdown"}

(***************************************************************************)
(* The text a worker hands to the backend (generateAudioForText of         *)
(* TTSService and EdgeTTSService, GenerateAudioWithRateLimit of            *)
(* UnifiedTTSService).  A task carries the untrimmed line; the task        *)
(* filters test the trimmed line with IsValidTextForTTS.  In a long text   *)
(* the characters "a10" and "a100" stand for ten and a hundred letters a.  *)
(***************************************************************************)
Repeat(c, n) == [i \in 1..n |-> c]

GetMaxTextLength(provider) ==
    IF provider = "tencent" THEN 150 ELSE 1000

\* len of a character in bytes (UTF-8)
ByteLen(c) ==
    CASE c = "a100" -> 100
      [] c = "a10" -> 10
      [] c = "zh" -> 3
      [] OTHER -> 1

\* number of runes a character stands for
RuneLen(c) ==
    CASE c = "a100" -> 100
      [] c = "a10" -> 10
      [] OTHER -> 1

RECURSIVE ByteLength(_)
ByteLength(text) ==
    IF text = <<>> THEN 0 ELSE ByteLen(Head(text)) + ByteLength(Tail(text))

RECURSIVE RuneLength(_)
RuneLength(text) ==
    IF text = <<>> THEN 0 ELSE RuneLen(Head(text)) + RuneLength(Tail(text))

\* n letters a
Letters(n) ==
    Repeat("a100", n \div 100) \o Repeat("a10", (n % 100) \div 10)
        \o Repeat("a", n % 10)

LongTexts ==
    { Repeat(" ", 4) \o <<"a", "a">>,
      Letters(150),
      Letters(151),
      Letters(100) \o <<" ">> \o Letters(100),
      Letters(1000),
      Letters(1001),
      Letters(600) \o <<" ">> \o Letters(600) }

RECURSIVE TrimLeft(_)
TrimLeft(text) ==
    IF text # <<>> /\ isSpace(Head(text)) THEN TrimLeft(Tail(text)) ELSE text

RECURSIVE TrimRight(_)
TrimRight(text) ==
    IF text # <<>> /\ isSpace(text[Len(text)])
    THEN TrimRight(SubSeq(text, 1, Len(text) - 1))
    ELSE text

\* strings.TrimSpace
TrimAll(text) == TrimRight(TrimLeft(text))

\* TextProcessor.IsValidTextForTTS on a string of the characters above, none
\* of which occurs in its code, table, image, URL and markup patterns
validTextForTTS(text) ==
    LET t == TrimAll(text)
    IN  /\ t # <<>>
        /\ RuneLength(t) >= 2
        /\ \E i \in DOMAIN t : isEnglish(t[i]) \/ isChinese(t[i])

\* the lines that the task filters let through
TaskTexts == {x \in Strings \cup LongTexts : validTextForTTS(x)}

\* text[:n]: the first n bytes; a cut inside a run of letters keeps the
\* letters before it, a cut inside a Han character leaves a broken rune
RECURSIVE TakeBytes(_, _)
TakeBytes(text, n) ==
    IF text = <<>> \/ n = 0 THEN <<>>
    ELSE IF ByteLen(Head(text)) <= n
         THEN <<Head(text)>> \o TakeBytes(Tail(text), n - ByteLen(Head(text)))
         ELSE IF Head(text) \in {"a10", "a100"} THEN Letters(n)
         ELSE <<"broken">>

\* strings.LastIndex(text[:n], " "); -1 when the space is absent
LastIndexOfSpace(text, n) ==
    LET prefix == TakeBytes(text, n)
        spaces == {i \in DOMAIN prefix : isSpace(prefix[i])}
    IN  IF spaces = {} THEN 0 - 1
        ELSE LET last == CHOOSE i \in spaces : \A j \in spaces : j <= i
             IN  ByteLength(SubSeq(prefix, 1, last - 1))

\* TextProcessor.SplitTextIntelligently on a text without punctuation
SplitTextIntelligently(text, maxLength) ==
    IF ByteLength(text) <= maxLength THEN text
    ELSE LET pos == LastIndexOfSpace(text, maxLength)
         IN  IF pos > 0 THEN TakeBytes(text, pos)
             ELSE TakeBytes(text, maxLength)

NotCalled == [called |-> FALSE, text |-> <<>>]

Called(text) == [called |-> TRUE, text |-> text]

\* TTSService.generateAudioForText and EdgeTTSService.generateAudioForText
generateAudioForText(text, order) ==
    LET processedText == ProcessText(text, order)
    IN  IF TrimAll(processedText) = <<>> THEN NotCalled
        ELSE Called(processedText)

\* UnifiedTTSService.ProcessText, then provider.GenerateAudio
GenerateAudioWithRateLimit(text, provider, order) ==
    LET processedText == ProcessText(text, order)
        maxLength     == GetMaxTextLength(provider)
    IN  IF maxLength > 0 /\ ByteLength(processedText) > maxLength
        THEN Called(SplitTextIntelligently(processedText, maxLength))
        ELSE Called(processedText)

SynthesizeTTS ==
    /\ ret = NotReturned
    /\ arg.service = "TTSService"
    /\ \E order \in MapOrders :
          ret' = Returned(generateAudioForText(arg.text, order))
    /\ UNCHANGED <<runVars, limVars, arg>>

SynthesizeEdge ==
    /\ ret = NotReturned
    /\ arg.service = "EdgeTTSService"
    /\ \E order \in MapOrders :
          ret' = Returned(generateAudioForText(arg.text, order))
    /\ UNCHANGED <<runVars, limVars, arg>>

SynthesizeUnified ==
    /\ ret = NotReturned
    /\ arg.service = "UnifiedTTSService"
    /\ \E order \in MapOrders :
          ret' = Returned(GenerateAudioWithRateLimit(arg.text, arg.provider,
                                                     order))
    /\ UNCHANGED <<runVars, limVars, arg>>

InitSynth ==
    /\ AtRest
    /\ \E c \in Constructors : \E x \in TaskTexts :
          /\ c.service # "ConcurrentAudioService"
          /\ arg = [service |-> c.service, provider |-> c.provider, text |-> x]
    /\ ret = NotReturned

NextSynth ==
    \/ SynthesizeTTS
    \/ SynthesizeEdge
    \/ SynthesizeUnified

SpecSynth == InitSynth /\ [][NextSynth]_vars

(***************************************************************************)
(* C24: every text handed to the backend is non-empty, no longer than the  *)
(* backend's MaxTextLength (150 for Tencent, 1000 for Edge) and passes the *)
(* validity predicate.                                                     *)
(***************************************************************************)
C24_BackendTextWithinLimits ==
    (ret # NotReturned /\ ret[1].called) =>
        /\ ret[1].text # <<>>
        /\ ByteLength(ret[1].text) <= GetMaxTextLength(arg.provider)
        /\ validTextForTTS(ret[1].text)

(***************************************************************************)
(* Claims on the worker pool of a pipeline run                             *)
(***************************************************************************)
\* the goroutines whose local state satisfies P
RECURSIVE CountCopies(_)
CountCopies(ws) ==
    IF ws = {} THEN 0
    ELSE LET w == CHOOSE x \in ws : TRUE
         IN  CopiesIn(w, workers) + CountCopies(ws \ {w})

Started == CountCopies(BagToSet(workers))

InFlight == CountCopies({w \in BagToSet(workers) : w.pc = "gen"})

(***************************************************************************)
(* C25: the dispatcher starts exactly min(max_workers, number of           *)
(* fragments) workers, and never more backend calls than that are in       *)
(* flight.                                                                 *)
(***************************************************************************)
C25_WorkerCountBound ==
    /\ InFlight <= Started
    /\ (mainPc # "start" /\ input # {}) =>
           Started = Min(maxWorkers, Cardinality(input))

C25_Witness ==
    /\ maxWorkers = 2
    /\ Cardinality(input) = 3
    /\ InFlight = 2

(***************************************************************************)
(* C26: the output file is created and written only after every worker     *)
(* has exited and the result channel has been closed and drained.          *)
(***************************************************************************)
C26_OutputAfterWorkers ==
    [][(outExists' # outExists \/ output' # output) =>
           /\ \A w \in BagToSet(workers) : w.pc = "exit"
           /\ resultClosed
           /\ resultChan = <<>>
           /\ workers' = workers]_vars

C26_Witness ==
    /\ outExists
    /\ output # <<>>
    /\ Started = 2

\* how often task i is on the work channel
Queued(i) == Cardinality({k \in DOMAIN taskChan : taskChan[k] = i})

(***************************************************************************)
(* C27: every fragment is on the work channel before a worker starts, the  *)
(* result channel has room for one result per fragment, the number of      *)
(* buffered results never exceeds it, and a worker that sends a result     *)
(* never finds the channel full.                                           *)
(***************************************************************************)
C27_WorkersNeverBlockOnSend ==
    /\ resultChanCap(Cardinality(input)) = Cardinality(input)
    /\ Len(resultChan) <= Cardinality(input)
    /\ \A w \in BagToSet(workers) :
          w.pc = "send" => Len(resultChan) < resultChanCap(Cardinality(input))
    /\ mainPc # "start" =>
          \A i \in input : Queued(i) + picked[i] = 1

C27_Witness ==
    /\ \E w \in BagToSet(workers) : w.pc = "send"
    /\ results = <<>>
    /\ Len(resultChan) = 2
    /\ Cardinality(input) = 3

(***************************************************************************)
(* generateAudioWithRetry of the four services, with the waits between     *)
(* attempts in seconds.  Callers pass maxRetries = 3.                      *)
(***************************************************************************)
MaxRetriesArg == 4

\* time.Duration(attempt) * time.Second * 2 (TTSService,
\* ConcurrentAudioService); time.Duration(attempt) * time.Second
\* (EdgeTTSService, UnifiedTTSService)
waitTime(service, attempt) ==
    IF service \in {"TTSService", "ConcurrentAudioService"}
    THEN attempt * 2
    ELSE attempt

successIgnored(attempt) == NotReturned

\* if err == nil { return audioPath, nil }: the path of this attempt
successReturns(attempt) == Returned([Error |-> FALSE, AudioFile |-> attempt])

\* an attempt returns err == nil; firstOk records the first such attempt
AttemptSucceeds ==
    /\ ret = NotReturned
    /\ arg.attempt <= arg.maxRetries
    /\ arg.calls <= MaxRetriesArg
    /\ arg' = [arg EXCEPT !.calls = @ + 1,
                          !.firstOk = IF @ = 0 THEN arg.attempt ELSE @]
    /\ ret' = successReturns(arg.attempt)
    /\ UNCHANGED <<runVars, limVars>>

\* an attempt fails and another one follows after time.Sleep(waitTime)
AttemptFailsAndWaits ==
    /\ ret = NotReturned
    /\ arg.attempt < arg.maxRetries
    /\ arg' = [arg EXCEPT !.calls = @ + 1,
                          !.slept = Append(@, waitTime(arg.service, arg.attempt)),
                          !.attempt = @ + 1]
    /\ UNCHANGED <<runVars, limVars, ret>>

\* the last attempt fails: the loop ends and the error is returned
LastAttemptFails ==
    /\ ret = NotReturned
    /\ arg.attempt = arg.maxRetries
    /\ arg' = [arg EXCEPT !.calls = @ + 1, !.attempt = @ + 1]
    /\ ret' = Returned([Error |-> TRUE, AudioFile |-> NoPath])
    /\ UNCHANGED <<runVars, limVars>>

InitRetry ==
    /\ AtRest
    /\ \E c \in Constructors : \E m \in 1..MaxRetriesArg :
          arg = [service |-> c.service, provider |-> c.provider,
                 maxRetries |-> m, attempt |-> 1, calls |-> 0, slept |-> <<>>,
                 firstOk |-> 0]
    /\ ret = NotReturned

NextRetry ==
    \/ AttemptSucceeds
    \/ AttemptFailsAndWaits
    \/ LastAttemptFails

SpecRetry == InitRetry /\ [][NextRetry]_vars

\* the documented base of the backoff, in seconds
BackoffBase(provider) == IF provider = "tencent" THEN 2 ELSE 1

(***************************************************************************)
(* C28: after the k-th failed attempt, k < max_retries, the worker waits   *)
(* k * base, with base 1 s for the Edge backend and 2 s for the Tencent    *)
(* backend whichever service drives it; after the last failed attempt      *)
(* there is no wait.                                                       *)
(***************************************************************************)
C28_BackoffIsLinear ==
    /\ \A k \in DOMAIN arg.slept :
          arg.slept[k] = k * BackoffBase(arg.provider)
    /\ Len(arg.slept) <= arg.maxRetries - 1

(***************************************************************************)
(* C29: retry stops at the first success: if attempt k is the first that   *)
(* succeeds, the backend is called exactly k times for the fragment and    *)
(* the result is a success that carries the path produced by attempt k.    *)
(***************************************************************************)
C29_StopsAtFirstSuccess ==
    arg.firstOk # 0 =>
        /\ ret = Returned([Error |-> FALSE, AudioFile |-> arg.firstOk])
        /\ arg.calls = arg.firstOk

C29_Witness ==
    /\ arg.firstOk = 2
    /\ arg.maxRetries = 3
    /\ ret # NotReturned
    /\ arg.slept # <<>>

(***************************************************************************)
(* One worker goroutine on its own: TTSService.ttsWorker,                  *)
(* ConcurrentAudioService.worker and EdgeTTSService.edgeTTSWorker.  Each   *)
(* ranges over the task channel, calls limiter.Wait for the task, and on   *)
(* an error sends TTSResult{Index, Error} and continues; otherwise it      *)
(* calls generateAudioWithRetry and sends what that returns.  The outcome  *)
(* of limiter.Wait and of the backend is chosen by the environment.  The   *)
(* worker of UnifiedTTSService has no acquire step of its own (the Wait is *)
(* part of every attempt, in GenerateAudioWithRateLimit) and is not one of *)
(* these.  arg holds the worker's locals, the remaining content of the     *)
(* closed task channel, the results sent, the tasks the backend was called *)
(* for and the tasks whose Wait returned an error.                         *)
(***************************************************************************)
MaxTasks == 3

WorkerServices == {"TTSService", "ConcurrentAudioService", "EdgeTTSService"}

afterWaitErrorFallsThrough == "call"

\* if err != nil { resultChan <- TTSResult{...}; continue }
afterWaitError == "send"

RangeOverTaskChan ==
    /\ arg.pc = "recv"
    /\ arg.taskChan # <<>>
    /\ arg' = [arg EXCEPT !.pc = "wait",
                          !.task = Head(arg.taskChan),
                          !.taskChan = Tail(arg.taskChan)]
    /\ UNCHANGED <<runVars, limVars, ret>>

TaskChanDrained ==
    /\ arg.pc = "recv"
    /\ arg.taskChan = <<>>
    /\ arg' = [arg EXCEPT !.pc = "exit"]
    /\ UNCHANGED <<runVars, limVars, ret>>

WaitReturnsNil ==
    /\ arg.pc = "wait"
    /\ arg' = [arg EXCEPT !.pc = "call"]
    /\ UNCHANGED <<runVars, limVars, ret>>

WaitReturnsError ==
    /\ arg.pc = "wait"
    /\ arg' = [arg EXCEPT !.pc = afterWaitError,
                          !.result = TTSResult(arg.task, NoPath, TRUE),
                          !.waitErr = @ \cup {arg.task}]
    /\ UNCHANGED <<runVars, limVars, ret>>

GenerateWithRetryReturns ==
    /\ arg.pc = "call"
    /\ \E ok \in BOOLEAN :
          arg' = [arg EXCEPT
                    !.pc = "send",
                    !.called = Append(@, arg.task),
                    !.result = IF ok THEN TTSResult(arg.task, arg.task, FALSE)
                                     ELSE TTSResult(arg.task, NoPath, TRUE)]
    /\ UNCHANGED <<runVars, limVars, ret>>

SendToResultChan ==
    /\ arg.pc = "send"
    /\ arg' = [arg EXCEPT !.pc = "recv", !.sent = Append(@, arg.result)]
    /\ UNCHANGED <<runVars, limVars, ret>>

InitWorker ==
    /\ AtRest
    /\ \E s \in WorkerServices, n \in 1 .. MaxTasks :
          arg = [service  |-> s,
                 taskChan |-> [i \in 1 .. n |-> i],
                 pc       |-> "recv",
                 task     |-> 0,
                 result   |-> TTSResult(0, NoPath, FALSE),
                 sent     |-> <<>>,
                 called   |-> <<>>,
                 waitErr  |-> {}]
    /\ ret = NotReturned

NextWorker ==
    \/ RangeOverTaskChan
    \/ TaskChanDrained
    \/ WaitReturnsNil
    \/ WaitReturnsError
    \/ GenerateWithRetryReturns
    \/ SendToResultChan

SpecWorker == InitWorker /\ [][NextWorker]_vars

ResultsFor(t) == {k \in DOMAIN arg.sent : arg.sent[k].Index = t}

\* the worker is done with task t: it holds a later task or has left the loop
MovedPast(t) == arg.task # t \/ arg.pc \in {"recv", "exit"}

(***************************************************************************)
(* C30: if limiter.Wait fails for a task, the worker sends exactly one     *)
(* result for that task and it is a failure, never calls the backend for   *)
(* it, and goes on ranging over the task channel (it leaves the loop only  *)
(* when the channel is drained).                                           *)
(***************************************************************************)
C30_AcquireFailureIsOneFailureResult ==
    /\ \A t \in arg.waitErr :
          /\ t \notin Range(arg.called)
          /\ Cardinality(ResultsFor(t)) <= 1
          /\ \A k \in ResultsFor(t) :
                arg.sent[k] = TTSResult(t, NoPath, TRUE)
          /\ MovedPast(t) => Cardinality(ResultsFor(t)) = 1
    /\ arg.pc = "exit" => arg.taskChan = <<>>

C30_Witness ==
    /\ 1 \in arg.waitErr
    /\ Len(arg.sent) = 2
    /\ arg.sent[1] = TTSResult(1, NoPath, TRUE)
    /\ arg.sent[2] = TTSResult(2, 2, FALSE)
    /\ arg.called = <<2>>

(***************************************************************************)
(* C31: whenever the validator rejects a file of the list, during the      *)
(* merge's revalidation, that file no longer exists once it was skipped:   *)
(* after the merge, every listed file that still exists passes the         *)
(* validation.  Violated under SpecMerge: the loop of                      *)
(* AudioMergeOnlyService.MergeAudioFiles skips a rejected file with a      *)
(* warning and leaves it where it is.                                      *)
(***************************************************************************)
C31_RejectedFileRemoved ==
    mainPc = "done" =>
        \A p \in Range(audioFiles) :
            fs[p].exists => validateAudioFile(fs[p])

(***************************************************************************)
(* Configuration checks before a run.  runTTS (the tts command) rejects    *)
(* only the placeholder credentials of the generated config file and then  *)
(* builds the service with NewTTSService, which checks nothing (the SDK's  *)
(* tts.NewClient stores credential and region and returns a nil error).    *)
(* CreateUnifiedTTSService goes through TTSProviderFactory.CreateProvider, *)
(* which rejects an unknown provider type, and NewTencentTTSProvider,      *)
(* which calls ValidateConfig.  arg is the configuration and the entry     *)
(* point; ret is the error of the run and the number of backend calls made *)
(* for its one fragment.  Whether a backend call succeeds is chosen by the *)
(* environment.                                                            *)
(***************************************************************************)
SecretIDs == {"", "your_secret_id", "AKID"}

SecretKeys == {"", "your_secret_key", "key"}

Regions == {"", "ap-beijing"}

ProviderTypes == {"tencent", "tencentcloud", "edge", "edgetts", "azure"}

Entries == {"runTTS", "CreateUnifiedTTSService"}

\* cmd/tts.go: the check of runTTS before NewTTSService
runTTSConfigOk(cfg) ==
    ~(cfg.SecretID = "your_secret_id" \/ cfg.SecretKey = "your_secret_key")

\* TencentTTSProvider.ValidateConfig returns nil
ValidateConfig(cfg) ==
    /\ ~(cfg.SecretID = "" \/ cfg.SecretID = "your_secret_id")
    /\ ~(cfg.SecretKey = "" \/ cfg.SecretKey = "your_secret_key")
    /\ cfg.Region # ""

\* TTSProviderFactory.CreateProvider returns a provider
CreateProvider(cfg) ==
    CASE cfg.providerType \in {"tencent", "tencentcloud"} -> ValidateConfig(cfg)
      [] cfg.providerType \in {"edge", "edgetts"}         -> TRUE
      [] OTHER                                            -> FALSE

\* the configuration check of the entry point passes
ConfigAccepted(cfg) ==
    IF cfg.entry = "runTTS" THEN runTTSConfigOk(cfg) ELSE CreateProvider(cfg)

\* the entry point returns the configuration error; nothing was dispatched
ConfigRejected ==
    /\ ret = NotReturned
    /\ ~ConfigAccepted(arg)
    /\ ret' = Returned([Error |-> "config", calls |-> 0])
    /\ UNCHANGED <<runVars, limVars, arg>>

\* the fragment is dispatched and attempt k succeeds
DispatchedAndSucceeds ==
    /\ ret = NotReturned
    /\ ConfigAccepted(arg)
    /\ \E k \in 1 .. MaxRetries :
          ret' = Returned([Error |-> "nil", calls |-> k])
    /\ UNCHANGED <<runVars, limVars, arg>>

\* the fragment is dispatched and every attempt fails
DispatchedAndFails ==
    /\ ret = NotReturned
    /\ ConfigAccepted(arg)
    /\ ret' = Returned([Error |-> "synthesis", calls |-> MaxRetries])
    /\ UNCHANGED <<runVars, limVars, arg>>

InitConfig ==
    /\ AtRest
    /\ \E e \in Entries, t \in ProviderTypes, id \in SecretIDs,
          key \in SecretKeys, r \in Regions :
          /\ e = "runTTS" => t = "tencent"
          /\ arg = [entry |-> e, providerType |-> t, SecretID |-> id,
                    SecretKey |-> key, Region |-> r]
    /\ ret = NotReturned

NextConfig ==
    \/ ConfigRejected
    \/ DispatchedAndSucceeds
    \/ DispatchedAndFails

SpecConfig == InitConfig /\ [][NextConfig]_vars

\* the backend the entry point drives is the Tencent cloud
UsesTencent(cfg) ==
    cfg.entry = "runTTS" \/ cfg.providerType \in {"tencent", "tencentcloud"}

\* the configuration failures the claim names
ConfigFailure(cfg) ==
    \/ /\ UsesTencent(cfg)
       /\ \/ cfg.SecretID \in {"", "your_secret_id"}
          \/ cfg.SecretKey \in {"", "your_secret_key"}
          \/ cfg.Region = ""
    \/ cfg.providerType \notin {"tencent", "tencentcloud", "edge", "edgetts"}

(***************************************************************************)
(* C32: a configuration failure (missing or placeholder credentials,       *)
(* missing region, unsupported provider type) is reported before anything  *)
(* is dispatched: the run returns the configuration error with zero        *)
(* backend calls.  Violated: runTTS accepts empty credentials and an empty *)
(* region, and the fragments are dispatched and retried.                   *)
(***************************************************************************)
C32_ConfigFailureBeforeDispatch ==
    (ret # NotReturned /\ ConfigFailure(arg)) =>
        ret = Returned([Error |-> "config", calls |-> 0])

(***************************************************************************)
(* The end-of-run summary of processTTSTasksConcurrent                     *)
(***************************************************************************)
\* results without / with an error that the collector has received
CollectedOk == {k \in 1 .. Len(results) : ~results[k].Error}

CollectedFailed == {k \in 1 .. Len(results) : results[k].Error}

SummaryCounts ==
    /\ successCount = Cardinality(CollectedOk)
    /\ failureCount = Cardinality(CollectedFailed)
    /\ successCount + failureCount = Cardinality(input)

(***************************************************************************)
(* C33 (as amended): with MaxWorkers >= 1, when the collector has          *)
(* returned, the success count is the number of collected results without  *)
(* error, the failure count the number with an error, and their sum is the *)
(* number of fragments put on the work channel.                            *)
(***************************************************************************)
C33_SummaryCountsWithWorkers ==
    (mainPc \in {"merge", "done"} /\ runErr # "EmptyInput"
        /\ maxWorkers >= 1) => SummaryCounts

\* C33 witness: three fragments, successes and failures both counted
C33_Witness ==
    /\ mainPc = "merge"
    /\ maxWorkers >= 1
    /\ Cardinality(input) = 3
    /\ successCount = 2
    /\ failureCount = 1

\* C33 as stated, for any MaxWorkers: fails when MaxWorkers is 0, where the
\* summary reads success 0, failure 0 for a non-empty work channel
C33_SummaryCountsAnyWorkers ==
    (mainPc \in {"merge", "done"} /\ runErr # "EmptyInput") => SummaryCounts

(***************************************************************************)
(* The manifest-based merge: ConcurrentAudioService.mergeAudioFiles and    *)
(* AudioMergeService.mergeAudioFiles write temp_dir/file_list.txt with     *)
(* createFileList and, once createFileList has returned nil, register      *)
(* defer os.Remove(listFile).  arg holds the service, the number of files  *)
(* to list (for ConcurrentAudioService those that passed its validation,   *)
(* next to the number it skipped and removed), whether file_list.txt       *)
(* exists, and the position in createFileList.                             *)
(* Whether os.Create, a Fprintf and the merge itself succeed is chosen by  *)
(* the environment.  A manifest can be there before the call.              *)
(***************************************************************************)
ManifestServices == {"ConcurrentAudioService", "AudioMergeService"}

\* ConcurrentAudioService: if len(validAudioFiles) == 0 { return error }
ReturnNoValidFiles ==
    /\ ret = NotReturned
    /\ arg.pc = "start"
    /\ arg.service = "ConcurrentAudioService"
    /\ arg.files = 0
    /\ ret' = Returned("noValidFiles")
    /\ UNCHANGED <<runVars, limVars, arg>>

\* createFileList: os.Create(listFile) fails
CreateListFileFails ==
    /\ ret = NotReturned
    /\ arg.pc = "start"
    /\ arg.service = "ConcurrentAudioService" => arg.files > 0
    /\ ret' = Returned("createFileList")
    /\ UNCHANGED <<runVars, limVars, arg>>

\* createFileList: os.Create(listFile) creates or truncates the manifest
CreateListFile ==
    /\ ret = NotReturned
    /\ arg.pc = "start"
    /\ arg.service = "ConcurrentAudioService" => arg.files > 0
    /\ arg' = [arg EXCEPT !.pc = "write", !.listExists = TRUE]
    /\ UNCHANGED <<runVars, limVars, ret>>

\* createFileList: fmt.Fprintf(file, "file '%s'\n", audioFile)
WriteListEntry ==
    /\ ret = NotReturned
    /\ arg.pc = "write"
    /\ arg.written < arg.files
    /\ arg' = [arg EXCEPT !.written = @ + 1]
    /\ UNCHANGED <<runVars, limVars, ret>>

\* createFileList: Fprintf fails; mergeAudioFiles returns the error
\* before defer os.Remove(listFile) is reached
WriteListEntryFails ==
    /\ ret = NotReturned
    /\ arg.pc = "write"
    /\ arg.written < arg.files
    /\ ret' = Returned("createFileList")
    /\ UNCHANGED <<runVars, limVars, arg>>

\* createFileList returns nil; defer os.Remove(listFile); the merge
\* runs and returns nil or its error; the deferred Remove runs
MergeFromList ==
    /\ ret = NotReturned
    /\ arg.pc = "write"
    /\ arg.written = arg.files
    /\ arg' = [arg EXCEPT !.pc = "done", !.listExists = FALSE]
    /\ \E err \in {"nil", "merge"} : ret' = Returned(err)
    /\ UNCHANGED <<runVars, limVars>>

InitManifest ==
    /\ AtRest
    /\ \E s \in ManifestServices, n \in 0 .. MaxFiles, stale \in BOOLEAN :
       \E skipped \in 0 .. (MaxFiles - n) :
          /\ s = "AudioMergeService" => skipped = 0
          /\ arg = [service |-> s, files |-> n, invalid |-> skipped,
                    listExists |-> stale, pc |-> "start", written |-> 0]
    /\ ret = NotReturned

NextManifest ==
    \/ ReturnNoValidFiles
    \/ CreateListFileFails
    \/ CreateListFile
    \/ WriteListEntry
    \/ WriteListEntryFails
    \/ MergeFromList

SpecManifest == InitManifest /\ [][NextManifest]_vars

(***************************************************************************)
(* C34: whenever the manifest-based merge returns, with success or with    *)
(* any error, temp_dir/file_list.txt does not exist.  Violated: when a     *)
(* write to the manifest fails, createFileList returns the error and       *)
(* mergeAudioFiles returns before the deferred Remove is registered.       *)
(***************************************************************************)
C34_ManifestGoneOnReturn ==
    ret # NotReturned => ~arg.listExists

(***************************************************************************)
(* A run under a fair scheduler.  The Go scheduler keeps running runnable  *)
(* goroutines and every backend call and limiter.Wait returns, so a step   *)
(* that stays possible is taken in the end.  No step of a run can be taken *)
(* twice from the same state, so weak fairness of the next-state relation  *)
(* is all that the scheduling has to give.                                 *)
(***************************************************************************)
SpecFair == Init /\ [][Next]_vars /\ WF_vars(Next)

\* the dispatcher has returned and left nothing behind
RunEnded ==
    /\ mainPc = "done"
    /\ wgWait(workers)
    /\ resultChan = <<>>
    /\ input # {} => resultClosed

(***************************************************************************)
(* C35: the run terminates without deadlock: under fair scheduling all     *)
(* workers exit, the result channel is closed and the collector returns,   *)
(* for every number of fragments and every MaxWorkers; with MaxWorkers     *)
(* <= 0 and at least one fragment no worker is started and the run ends    *)
(* with an error.                                                          *)
(***************************************************************************)
C35_RunTerminates ==
    /\ <>RunEnded
    /\ []((mainPc = "done" /\ maxWorkers <= 0 /\ input # {}) =>
             (workers = EmptyBag /\ runErr = "NoResults"))

\* C35 witness: a run of two workers over three fragments has ended
C35_Witness ==
    /\ RunEnded
    /\ maxWorkers = 2
    /\ Cardinality(input) = 3
    /\ Len(results) = 3
    /\ runErr = "nil"

(***************************************************************************)
(* C36: the result channel is closed exactly once, by the goroutine that   *)
(* waits on the WaitGroup, and only after every worker has returned; no    *)
(* worker sends on the channel once it is closed.  Once fragments are on   *)
(* the work channel the close does happen; the step that closes finds      *)
(* every worker at its exit; a closed channel stays closed; and every step *)
(* that puts a result on the channel finds it open.                        *)
(***************************************************************************)
C36_ClosedOnceAfterWorkers ==
    /\ [][(resultClosed' /\ ~resultClosed) =>
             (wgWait(workers) /\ workers' = workers)]_vars
    /\ [][resultClosed => resultClosed']_vars
    /\ [][Len(resultChan') > Len(resultChan) => ~resultClosed]_vars
    /\ [](resultClosed =>
            \A w \in BagToSet(workers) : w.pc = "exit")
    /\ (mainPc = "collect") ~> resultClosed

\* C36 witness: the channel was closed after two workers had sent three
\* results, which the collector has not yet received
C36_Witness ==
    /\ resultClosed
    /\ mainPc = "collect"
    /\ Len(resultChan) = 3
    /\ Started = 2

(***************************************************************************)
(* Two calls of ProcessText on the same string.  Each call ranges over the *)
(* replacements map of processEscapeCharacters in an order of its own: Go  *)
(* does not fix the iteration order of a map.  arg holds the string and    *)
(* what the first call returned, ret what the second call returned.        *)
(***************************************************************************)
ProcessTextFirstCall ==
    /\ arg.first = NotReturned
    /\ \E order \in MapOrders :
          arg' = [arg EXCEPT !.first = Returned(ProcessText(arg.x, order))]
    /\ UNCHANGED <<runVars, limVars, ret>>

ProcessTextSecondCall ==
    /\ arg.first # NotReturned
    /\ ret = NotReturned
    /\ \E order \in MapOrders :
          ret' = Returned(ProcessText(arg.x, order))
    /\ UNCHANGED <<runVars, limVars, arg>>

InitSameInput ==
    /\ AtRest
    /\ \E x \in Strings : arg = [x |-> x, first |-> NotReturned]
    /\ ret = NotReturned

NextSameInput ==
    \/ ProcessTextFirstCall
    \/ ProcessTextSecondCall

SpecSameInput == InitSameInput /\ [][NextSameInput]_vars

(***************************************************************************)
(* C37: ProcessText is deterministic: two calls on the same string return  *)
(* the same string, whatever the order in which the replacement tables are *)
(* iterated.  Violated: for a backslash, a backslash and an at sign the    *)
(* result depends on which of the rules \\ and \@ is applied first.        *)
(***************************************************************************)
C37_ProcessTextDeterministic ==
    ret # NotReturned => ret[1] = arg.first[1]

(***************************************************************************)
(* A pipeline merge (TTSService, UnifiedTTSService, EdgeTTSService and     *)
(* ConcurrentAudioService mergeAudioFiles) called when the output path     *)
(* already holds the file of an earlier run.                               *)
(***************************************************************************)
\* the content of the output file of an earlier run: one block that no
\* temp file of this run is the origin of
EarlierOutput == <<NoPath>>

InitRemerge ==
    /\ input = {}
    /\ maxWorkers = 0
    /\ mainPc = "merge"
    /\ NothingDispatched
    /\ workers = EmptyBag
    /\ fs \in {[p \in Lines |-> [k[p] EXCEPT !.data =
                                     IF k[p].exists THEN p ELSE NoPath]] :
                  k \in [Lines -> FileKinds]}
    /\ audioFiles \in {Ascending(S) : S \in SUBSET Lines}
    /\ output = EarlierOutput
    /\ outExists = TRUE
    /\ runErr = "pending"
    /\ rateLimit = 1
    /\ tokens = Burst(rateLimit)
    /\ now = 0
    /\ granted = 0
    /\ arg = "none"
    /\ ret = NotReturned

NextRemerge ==
    \/ MergeReturnsEmpty
    \/ MergeWritesOutput

SpecRemerge == InitRemerge /\ [][NextRemerge]_vars

(***************************************************************************)
(* C38: when a pipeline merge fails because no file passes validation, it  *)
(* has neither created nor truncated the output path: the output file of   *)
(* an earlier run is there as it was.                                      *)
(***************************************************************************)
C38_FailedMergeKeepsOutput ==
    (mainPc = "done" /\ runErr = "EmptyMerge") =>
        (outExists /\ output = EarlierOutput)

\* C38 witness: a merge of two listed files, both rejected and removed,
\* has failed and the earlier output is in place
C38_Witness ==
    /\ mainPc = "done"
    /\ runErr = "EmptyMerge"
    /\ Len(audioFiles) = 2
    /\ \A p \in Range(audioFiles) : ~fs[p].exists
    /\ output = EarlierOutput

(***************************************************************************)
(* The copy loop of a pipeline merge, after the validation and after       *)
(* os.Create(outputPath): TTSService.mergeAudioFiles and                   *)
(* UnifiedTTSService.mergeAudioFiles return the error of an os.Open or of  *)
(* a copy that fails; ConcurrentAudioService.simpleAudioMerge prints a     *)
(* warning and continues with the next file.  arg holds the service, the   *)
(* number of files that passed validation (files 1 .. valid, in list       *)
(* order), the loop position and the blocks written to the output; ret is  *)
(* the error returned.  Whether a file can be opened and copied is chosen  *)
(* by the environment; a copy that fails may have written part of the      *)
(* file.                                                                   *)
(***************************************************************************)
CopyServices == {"TTSService", "UnifiedTTSService", "ConcurrentAudioService"}

Block(file, whole) == [file |-> file, whole |-> whole]

\* what the loop does with an error of os.Open or of the copy
onCopyError(service) ==
    IF service = "ConcurrentAudioService" THEN "continue" ELSE "return"

\* os.Open and the copy succeed
CopyWholeFile ==
    /\ ret = NotReturned
    /\ arg.i <= arg.valid
    /\ arg' = [arg EXCEPT !.i = @ + 1,
                          !.out = Append(@, Block(arg.i, TRUE))]
    /\ UNCHANGED <<runVars, limVars, ret>>

\* os.Open fails: nothing of the file is written
OpenInputFails ==
    /\ ret = NotReturned
    /\ arg.i <= arg.valid
    /\ IF onCopyError(arg.service) = "continue"
       THEN /\ arg' = [arg EXCEPT !.i = @ + 1]
            /\ UNCHANGED ret
       ELSE /\ ret' = Returned("openFailed")
            /\ UNCHANGED arg
    /\ UNCHANGED <<runVars, limVars>>

\* the copy fails after a part of the file was written
CopyInputFails ==
    /\ ret = NotReturned
    /\ arg.i <= arg.valid
    /\ IF onCopyError(arg.service) = "continue"
       THEN /\ arg' = [arg EXCEPT !.i = @ + 1,
                                  !.out = Append(@, Block(arg.i, FALSE))]
            /\ UNCHANGED ret
       ELSE /\ arg' = [arg EXCEPT !.out = Append(@, Block(arg.i, FALSE))]
            /\ ret' = Returned("copyFailed")
    /\ UNCHANGED <<runVars, limVars>>

\* the loop has ended: return nil
CopyLoopEnds ==
    /\ ret = NotReturned
    /\ arg.i > arg.valid
    /\ ret' = Returned("nil")
    /\ UNCHANGED <<runVars, limVars, arg>>

InitCopy ==
    /\ AtRest
    /\ \E s \in CopyServices, n \in 1 .. MaxFiles :
          arg = [service |-> s, valid |-> n, i |-> 1, out |-> <<>>]
    /\ ret = NotReturned

NextCopy ==
    \/ CopyWholeFile
    \/ OpenInputFails
    \/ CopyInputFails
    \/ CopyLoopEnds

SpecCopy == InitCopy /\ [][NextCopy]_vars

(***************************************************************************)
(* C39: if a pipeline merge returns success, the output holds the bytes of *)
(* every file that passed validation, each exactly once and in list order: *)
(* no such file is left out, or left in part, of a merge reported as       *)
(* successful.  Violated: ConcurrentAudioService.simpleAudioMerge skips a  *)
(* file it cannot open or copy and still returns nil.                      *)
(***************************************************************************)
C39_SuccessHoldsEveryValidFile ==
    ret = Returned("nil") =>
        arg.out = [k \in 1 .. arg.valid |-> Block(k, TRUE)]

(***************************************************************************)
(* Sentences and paragraph boundaries (SpecExtract).  Every block of the   *)
(* documents holds at most one paragraph, so two pieces of text lie in the *)
(* same paragraph, list item or block quote exactly when their paths start *)
(* with the same block.                                                    *)
(***************************************************************************)
TextPieces(sentence) == SelectSeq(sentence, LAMBDA t : t.k = "text")

WithinOneBlock(sentence) ==
    \A i \in DOMAIN TextPieces(sentence) :
       \A j \in DOMAIN TextPieces(sentence) :
          TextPieces(sentence)[i].p[1] = TextPieces(sentence)[j].p[1]

(***************************************************************************)
(* C40: in Markdown mode a paragraph, list-item or blockquote boundary is  *)
(* always a sentence boundary: no emitted sentence holds text of two       *)
(* different paragraphs.  Violated: cleanupText replaces every run of      *)
(* white space, the newline written at the end of a paragraph included,    *)
(* by one space before SplitIntoSentences looks for newlines.              *)
(***************************************************************************)
C40_ParagraphEndsSentence ==
    ret # NotReturned =>
        \A k \in DOMAIN ret[1] : WithinOneBlock(ret[1][k])

====
